---- MODULE Spec2Model ----
(***************************************************************************)
(* SentryScan: the webhook dispatcher (package alert), the baseline store  *)
(* (package baseline) and the payload signature, as state machines.        *)
(*                                                                         *)
(* Time is counted in minutes.  A Go string is a TLA+ string; the Go       *)
(* strings that are not valid UTF-8 are the members of InvalidUTF8.        *)
(* SHA-256 and HMAC-SHA256 are ideal: collision free, so a digest is       *)
(* modelled by the bytes (and key) it was computed from.                   *)
(***************************************************************************)
EXTENDS Integers, Sequences, FiniteSets, TLC

(***************************************************************************)
(* Program constants.                                                      *)
(***************************************************************************)
maxRetries == 3
maxAge == 10

(***************************************************************************)
(* Bounds of the model.                                                    *)
(***************************************************************************)
MaxTicks == 3
MaxSweeps == 1
MaxEntries == 2
MaxFindings == 2

\* The goroutines that call Send: Senders one after another, Callers
\* concurrently on one Webhook.
Senders == {"s1"}
Callers == {"s1", "s2"}
NonceValues == {"n1", "n2"}
TestNonces == {"n1"}
RunIDs == {"run-1", "run-2"}
StatusCodes == {200, 401, 429, 500}

\* The clock moves in steps of half of maxAge.
TickStep == maxAge \div 2
Times == {k * TickStep : k \in 0 .. MaxTicks}

(***************************************************************************)
(* encoding/json: a string is written coerced to valid UTF-8, every        *)
(* invalid byte replaced by U+FFFD.  "\\xff" and "\\xfe" stand for the     *)
(* one-byte Go strings "\xff" and "\xfe".                                  *)
(***************************************************************************)
InvalidUTF8 == {"\\xff", "\\xfe"}

JsonString(s) == IF s \in InvalidUTF8 THEN "\\ufffd" ELSE s

(***************************************************************************)
(* The webhook dispatcher.                                                 *)
(***************************************************************************)
VARIABLES
    now,        \* the wall clock, in minutes
    urlValid,   \* whether w.url is a URL http.NewRequest accepts
    nonces,     \* w.nonces: nonce -> generated_at
    testNonce,  \* the package variable testNonce ("" when not set)
    sweeps,     \* cleanupNonces goroutines started and not yet run
    pc,         \* per Send call: where it is
    payload,    \* per Send call: *payload
    i,          \* per Send call: the retry loop's i
    lastErr,    \* per Send call: lastErr (<<>> is nil)
    resps,      \* per Send call: what each client.Do returned, in order
    result,     \* per Send call: what Send returned
    resend,     \* per Send call: an earlier Send stored this payload's nonce
    override,   \* per Send call: generateNonce returned testNonce
    sent        \* per Send call: the request bodies put on the wire, in order

\* signPayload and verifySignature on their own.
VARIABLES
    sgOrig,     \* the payload as it was signed
    sgKey,      \* the signer's w.secret
    sgPayload,  \* the payload handed to verifySignature
    vfKey,      \* the verifier's w.secret
    vfResult    \* what verifySignature returned for sgPayload ("none": not called)

\* The baseline store.
VARIABLES
    blFile,     \* <dir>/.sentryscan_baseline.json
    bl,         \* the *Baseline the caller holds
    blHave,     \* whether the caller holds one (the last Load returned it)
    blOp,       \* the last operation: "none", "load", "add", "save", "filter"
    blErr,      \* the error it returned ("ok": nil)
    blArg,      \* the finding handed to the last Add (<<>>: none)
    flInput,    \* the findings handed to the last Filter
    flKept      \* what it returned

\* SecretScanner.Run.
VARIABLES
    rnPaths,     \* the paths argument
    rnOpts,      \* the opts argument
    fsDenied,    \* the files os.Open fails on
    rnNext,      \* how many g.Go calls the loop over paths has made
    wk,          \* per root: the goroutine walking it
    rnFindings,  \* the shared findings slice
    rnErr,       \* the errgroup's first error ("": none)
    rnCancelled, \* whether the caller's context is cancelled
    rnResult,    \* what Run returned
    rnPrev       \* what the run before this one returned (<<>>: first run)

\* The scan command.
VARIABLES
    clCfg,        \* the merged configuration, and the noFail flag
    clPc,         \* where RunE is
    clEngine,     \* the findings the engine returned
    clFindings,   \* the variable findings
    clSuppressed, \* the variable suppressed
    clSendErr,    \* what wh.Send returned ("": nil or not called)
    clErr,        \* the error RunE returned ("": nil)
    clOut,        \* what was written to the output (<<>>: nothing written)
    clExit        \* the exit code (-1: still running)

\* gitx.FilesInRange.
VARIABLES
    gtTime,     \* per commit: Committer.When
    gtCalled,   \* whether FilesInRange has been called
    gtRepo,     \* whether repoPath holds a repository
    gtFrom,     \* the argument from
    gtTo,       \* the argument to
    gtFiles,    \* the files it returned (<<>>: nil)
    gtErr       \* the error it returned ("": nil)

\* scanner.LoadConfig and scanner.MergeConfig.
VARIABLES
    cfFile,     \* the configuration file (<<>>: there is none)
    cfEnv,      \* SENTRYSCAN_WEBHOOK_URL and SENTRYSCAN_WEBHOOK_SECRET
    cfFlags,    \* per flag: whether it was given, and the flag variable
    cfMerged    \* what MergeConfig returned (<<>>: not called)

webhookRest == <<urlValid, nonces, testNonce, sweeps, pc, payload, i,
                 lastErr, resps, result, resend, override, sent>>
webhookVars == <<now, webhookRest>>
signVars == <<sgOrig, sgKey, sgPayload, vfKey, vfResult>>
baselineVars == <<blFile, bl, blHave, blOp, blErr, blArg, flInput, flKept>>
runVars == <<rnPaths, rnOpts, fsDenied, rnNext, wk, rnFindings, rnErr,
             rnCancelled, rnResult, rnPrev>>

cliVars == <<clCfg, clPc, clEngine, clFindings, clSuppressed, clSendErr,
             clErr, clOut, clExit>>

gitVars == <<gtTime, gtCalled, gtRepo, gtFrom, gtTo, gtFiles, gtErr>>
configVars == <<cfFile, cfEnv, cfFlags, cfMerged>>

vars == <<webhookVars, signVars, baselineVars, runVars, cliVars, gitVars, configVars>>
notWebhook == <<signVars, baselineVars, runVars, cliVars, gitVars, configVars>>
notSign == <<webhookRest, baselineVars, runVars, cliVars, gitVars, configVars>>
notBaseline == <<webhookVars, signVars, runVars, cliVars, gitVars, configVars>>
notRun == <<webhookVars, signVars, baselineVars, cliVars, gitVars, configVars>>
notCli == <<webhookRest, signVars, bl, blHave, blOp, blErr, blArg, flInput,
            flKept, runVars, gitVars, configVars>>
notGit == <<webhookVars, signVars, baselineVars, runVars, cliVars, configVars>>
notConfig == <<webhookVars, signVars, baselineVars, runVars, cliVars, gitVars>>

NoSign == <<>>

\* hex(SHA-256(bytes))
Sha256Hex(bytes) == "sha256:" \o bytes

\* scanner.Finding as ScanReader builds it.
NewFinding(ruleID, path, line, match) ==
    [Type |-> "secret", RuleID |-> ruleID, Description |-> "detected",
     Severity |-> "high", Path |-> path, Line |-> line, Column |-> 1,
     Match |-> match, Context |-> match, Fingerprint |-> Sha256Hex(match)]

\* json.Marshal of a scanner.Finding (no tags: every field is written).
MarshalFinding(f) ==
    [Type |-> JsonString(f.Type), RuleID |-> JsonString(f.RuleID),
     Description |-> JsonString(f.Description),
     Severity |-> JsonString(f.Severity), Path |-> JsonString(f.Path),
     Line |-> f.Line, Column |-> f.Column, Match |-> JsonString(f.Match),
     Context |-> JsonString(f.Context),
     Fingerprint |-> JsonString(f.Fingerprint)]

\* Payload, with Sign a pointer: <<>> is nil.
NewPayload(runID, generatedAt) ==
    [RunID |-> runID, Summary |-> "summary", Findings |-> <<>>,
     Repo |-> "repo", GitRef |-> "main", GeneratedAt |-> generatedAt,
     Nonce |-> "", Sign |-> NoSign]

\* The nonce left out of the signed bytes.
MarshalWithoutNonce(p) ==
    <<JsonString(p.RunID), JsonString(p.Summary),
      [k \in 1 .. Len(p.Findings) |-> MarshalFinding(p.Findings[k])],
      JsonString(p.Repo), JsonString(p.GitRef), p.GeneratedAt>>

\* json.Marshal(payload) with payload.Sign = nil: the fields in declaration
\* order, "signature" omitted (omitempty).
MarshalUnsigned(p) ==
    <<JsonString(p.RunID), JsonString(p.Summary),
      [k \in 1 .. Len(p.Findings) |-> MarshalFinding(p.Findings[k])],
      JsonString(p.Repo), JsonString(p.GitRef), p.GeneratedAt,
      JsonString(p.Nonce)>>

\* json.Marshal(payload) with payload.Sign set: the fields in declaration
\* order, "signature" last.
MarshalSigned(p) == <<MarshalUnsigned(p), p.Sign>>

\* base64(HMAC-SHA256(secret, data))
Hmac(secret, data) == <<"hmac-sha256", secret, data>>

signPayload(secret, p) ==
    [Algorithm |-> "HMAC-SHA256", Value |-> Hmac(secret, MarshalUnsigned(p))]

\* verifySignature: "ok" is a nil error.
verifySignature(secret, p) ==
    IF now - p.GeneratedAt > maxAge THEN "expired"
    ELSE IF p.Sign = NoSign THEN "no-signature"
    ELSE IF p.Sign[1].Algorithm # "HMAC-SHA256" THEN "unsupported-algorithm"
    ELSE IF p.Sign[1].Value # Hmac(secret, MarshalUnsigned([p EXCEPT !.Sign = NoSign]))
         THEN "signature-failed"
    ELSE "ok"

\* The operands of the age swapped.
ExpiredSwapped(t) == t - now > maxAge

\* time.Since(t) > maxAge
Expired(t) == now - t > maxAge

Outcomes ==
    {[transport |-> TRUE, status |-> 0]} \cup
    {[transport |-> FALSE, status |-> c] : c \in StatusCodes}

\* 200 itself not taken as a success.
Is2xxAbove200(o) == ~o.transport /\ o.status > 200 /\ o.status < 300

Is2xx(o) == ~o.transport /\ o.status >= 200 /\ o.status < 300

webhookSecret == "test-secret"

InitWebhook ==
    /\ now = 0
    /\ urlValid \in BOOLEAN
    /\ nonces = <<>>
    /\ testNonce = ""
    /\ sweeps = 0
    /\ pc = [s \in Callers |-> "idle"]
    /\ payload = [s \in Callers |-> NewPayload("run-1", 0)]
    /\ i = [s \in Callers |-> 0]
    /\ lastErr = [s \in Callers |-> <<>>]
    /\ resps = [s \in Callers |-> <<>>]
    /\ result = [s \in Callers |-> "none"]
    /\ resend = [s \in Callers |-> FALSE]
    /\ override = [s \in Callers |-> FALSE]
    /\ sent = [s \in Callers |-> <<>>]

\* generateNonce: testNonce when set, else 32 random bytes in hex.
GeneratedNonces == IF testNonce # "" THEN {testNonce} ELSE NonceValues

\* The results of a Send that went past storeNonce.
Stored == {"ok", "failed", "create-request"}

\* Send, lines 241-259: the expiry check, the nonce, the signature.  The
\* caller passes a new payload p, or (again) the payload of its last call.
SendBegin(s, p, again) ==
    /\ pc[s] \in {"idle", "done"}
    /\ again => pc[s] = "done" /\ p = payload[s]
    /\ sweeps < MaxSweeps
    /\ i' = [i EXCEPT ![s] = 0]
    /\ lastErr' = [lastErr EXCEPT ![s] = <<>>]
    /\ resps' = [resps EXCEPT ![s] = <<>>]
    /\ resend' = [resend EXCEPT ![s] = again /\ (@ \/ result[s] \in Stored)]
    /\ override' = [override EXCEPT ![s] = testNonce # ""]
    /\ sent' = [sent EXCEPT ![s] = <<>>]
    /\ IF Expired(p.GeneratedAt)
       THEN /\ payload' = [payload EXCEPT ![s] = p]
            /\ result' = [result EXCEPT ![s] = "expired"]
            /\ pc' = [pc EXCEPT ![s] = "done"]
       ELSE \E n \in GeneratedNonces :
              LET q == [p EXCEPT !.Nonce = n, !.Sign = NoSign]
              IN /\ payload' = [payload EXCEPT
                                  ![s] = [q EXCEPT !.Sign = <<signPayload(webhookSecret, q)>>]]
                 /\ result' = [result EXCEPT ![s] = "none"]
                 /\ pc' = [pc EXCEPT ![s] = "check"]
    /\ UNCHANGED <<now, urlValid, nonces, testNonce, sweeps>>
    /\ UNCHANGED notWebhook

\* isNonceUsed, lines 200-218, the read under RLock and what it decides.
CheckNonce(s) ==
    /\ pc[s] = "check"
    /\ LET n == payload[s].Nonce
       IN IF n \notin DOMAIN nonces
          THEN /\ pc' = [pc EXCEPT ![s] = "store"]
               /\ UNCHANGED result
          ELSE IF Expired(nonces[n])
          THEN /\ pc' = [pc EXCEPT ![s] = "evict"]
               /\ UNCHANGED result
          ELSE /\ pc' = [pc EXCEPT ![s] = "done"]
               /\ result' = [result EXCEPT ![s] = "replay"]
    /\ UNCHANGED <<now, urlValid, nonces, testNonce, sweeps, payload, i,
                   lastErr, resps, resend, override>>
    /\ UNCHANGED sent
    /\ UNCHANGED notWebhook

\* isNonceUsed, lines 210-215: the expired entry is deleted under Lock.
EvictNonce(s) ==
    /\ pc[s] = "evict"
    /\ nonces' = [n \in DOMAIN nonces \ {payload[s].Nonce} |-> nonces[n]]
    /\ pc' = [pc EXCEPT ![s] = "store"]
    /\ UNCHANGED <<now, urlValid, testNonce, sweeps, payload, i, lastErr,
                   resps, result, resend, override>>
    /\ UNCHANGED sent
    /\ UNCHANGED notWebhook

\* go w.cleanupNonces() without storeNonce before it.
StoreNothing(s) ==
    /\ pc[s] = "store"
    /\ sweeps' = sweeps + 1
    /\ pc' = [pc EXCEPT ![s] = "attempt"]
    /\ UNCHANGED <<now, urlValid, nonces, testNonce, payload, i, lastErr, resps,
                   result, resend, override, sent>>
    /\ UNCHANGED notWebhook

\* storeNonce(nonce, payload.GeneratedAt) and go w.cleanupNonces(), lines 267-270.
StoreNonce(s) ==
    /\ pc[s] = "store"
    /\ nonces' = [n \in DOMAIN nonces \cup {payload[s].Nonce} |->
                    IF n = payload[s].Nonce THEN payload[s].GeneratedAt ELSE nonces[n]]
    /\ sweeps' = sweeps + 1
    /\ pc' = [pc EXCEPT ![s] = "attempt"]
    /\ UNCHANGED <<now, urlValid, testNonce, payload, i, lastErr, resps,
                   result, resend, override>>
    /\ UNCHANGED sent
    /\ UNCHANGED notWebhook

\* The loop bound off by one: i <= maxRetries.
RetryOnceMore(s, o) == i[s] + 1 <= maxRetries

\* Whether the retry loop goes on after a failed attempt.
Retry(s, o) == i[s] + 1 < maxRetries

\* One iteration of the retry loop, lines 280-301, the server answering o.
Attempt(s, o) ==
    /\ pc[s] = "attempt"
    /\ IF ~urlValid
       THEN /\ result' = [result EXCEPT ![s] = "create-request"]
            /\ pc' = [pc EXCEPT ![s] = "done"]
            /\ UNCHANGED <<i, lastErr, resps, sent>>
       ELSE /\ resps' = [resps EXCEPT ![s] = Append(@, o)]
            /\ sent' = [sent EXCEPT ![s] = Append(@, MarshalSigned(payload[s]))]
            /\ IF Is2xx(o)
               THEN /\ result' = [result EXCEPT ![s] = "ok"]
                    /\ pc' = [pc EXCEPT ![s] = "done"]
                    /\ UNCHANGED <<i, lastErr>>
               ELSE /\ lastErr' = [lastErr EXCEPT ![s] = <<o>>]
                    /\ i' = [i EXCEPT ![s] = @ + 1]
                    /\ IF Retry(s, o)
                       THEN UNCHANGED <<result, pc>>
                       ELSE /\ result' = [result EXCEPT ![s] = "failed"]
                            /\ pc' = [pc EXCEPT ![s] = "done"]
    /\ UNCHANGED <<now, urlValid, nonces, testNonce, sweeps, payload,
                   resend, override>>
    /\ UNCHANGED notWebhook

\* cleanupNonces, lines 221-231, run by the goroutine Send started.
Sweep ==
    /\ sweeps > 0
    /\ sweeps' = sweeps - 1
    /\ nonces' = [n \in {m \in DOMAIN nonces : ~Expired(nonces[m])} |-> nonces[n]]
    /\ UNCHANGED <<now, urlValid, testNonce, pc, payload, i, lastErr, resps,
                   result, resend, override>>
    /\ UNCHANGED sent
    /\ UNCHANGED notWebhook

\* A test sets or clears the package variable testNonce.
SetTestNonce(v) ==
    /\ testNonce # v
    /\ \A s \in Senders : pc[s] \in {"idle", "done"}
    /\ testNonce' = v
    /\ UNCHANGED <<now, urlValid, nonces, sweeps, pc, payload, i, lastErr,
                   resps, result, resend, override>>
    /\ UNCHANGED sent
    /\ UNCHANGED notWebhook

Tick ==
    /\ now < MaxTicks * TickStep
    /\ now' = now + TickStep
    /\ UNCHANGED <<urlValid, nonces, testNonce, sweeps, pc, payload, i,
                   lastErr, resps, result, resend, override>>
    /\ UNCHANGED sent
    /\ UNCHANGED notWebhook

NextWebhook ==
    \/ \E s \in Senders, r \in RunIDs, t \in Times : SendBegin(s, NewPayload(r, t), FALSE)
    \/ \E s \in Senders : SendBegin(s, payload[s], TRUE)
    \/ \E s \in Senders : CheckNonce(s)
    \/ \E s \in Senders : EvictNonce(s)
    \/ \E s \in Senders : StoreNonce(s)
    \/ \E s \in Senders, o \in Outcomes : Attempt(s, o)
    \/ Sweep
    \/ \E v \in {""} \cup TestNonces : SetTestNonce(v)
    \/ Tick

(***************************************************************************)
(* signPayload and verifySignature on their own: a payload is signed, one  *)
(* of its fields or its signature is changed, or the verifier holds        *)
(* another secret, and verifySignature is called.                          *)
(***************************************************************************)
Secrets == {"test-secret", "wrong-secret"}
SignedFields == {"RunID", "Summary", "Findings", "Repo", "GitRef", "GeneratedAt", "Nonce"}

FieldValues(f) ==
    CASE f = "RunID" -> {"run-1", "\\xff", "\\xfe"}
      [] f = "Summary" -> {"summary", "tampered"}
      [] f = "Findings" -> {<<>>, <<NewFinding("aws-access-key", "a.txt", 1, "AKIA")>>}
      [] f = "Repo" -> {"repo", "other"}
      [] f = "GitRef" -> {"main", "dev"}
      [] f = "GeneratedAt" -> Times
      [] f = "Nonce" -> NonceValues

SignPayloads ==
    {[RunID |-> r, Summary |-> sm, Findings |-> fs, Repo |-> rp, GitRef |-> g,
      GeneratedAt |-> t, Nonce |-> n, Sign |-> NoSign] :
        r \in FieldValues("RunID"), sm \in FieldValues("Summary"),
        fs \in FieldValues("Findings"), rp \in FieldValues("Repo"),
        g \in FieldValues("GitRef"), t \in FieldValues("GeneratedAt"),
        n \in FieldValues("Nonce")}

Signed(secret, p) == [p EXCEPT !.Sign = <<signPayload(secret, p)>>]

WebhookIdle ==
    /\ urlValid = TRUE
    /\ nonces = <<>>
    /\ testNonce = ""
    /\ sweeps = 0
    /\ pc = [s \in Callers |-> "idle"]
    /\ payload = [s \in Callers |-> NewPayload("run-1", 0)]
    /\ i = [s \in Callers |-> 0]
    /\ lastErr = [s \in Callers |-> <<>>]
    /\ resps = [s \in Callers |-> <<>>]
    /\ result = [s \in Callers |-> "none"]
    /\ resend = [s \in Callers |-> FALSE]
    /\ override = [s \in Callers |-> FALSE]
    /\ sent = [s \in Callers |-> <<>>]

BaselineIdle ==
    /\ blFile = [kind |-> "absent"]
    /\ bl = <<>>
    /\ blHave = FALSE
    /\ blOp = "none"
    /\ blErr = "none"
    /\ blArg = <<>>
    /\ flInput = <<>>
    /\ flKept = <<>>

SignIdle ==
    /\ sgOrig = NewPayload("run-1", 0)
    /\ sgKey = "test-secret"
    /\ sgPayload = Signed("test-secret", NewPayload("run-1", 0))
    /\ vfKey = "test-secret"
    /\ vfResult = "none"

\* ScannerOptions{}: the zero value.
ZeroOptions ==
    [Threads |-> 0, SkipHidden |-> FALSE, IncludeExt |-> {}, ExcludeExt |-> {},
     MaxFileSize |-> 0]

\* Run has not returned.
NotReturned == [done |-> FALSE, findings |-> <<>>, err |-> ""]

RunIdle ==
    /\ rnPaths = <<>>
    /\ rnOpts = ZeroOptions
    /\ fsDenied = {}
    /\ rnNext = 0
    /\ wk = <<>>
    /\ rnFindings = <<>>
    /\ rnErr = ""
    /\ rnCancelled = FALSE
    /\ rnResult = NotReturned
    /\ rnPrev = <<>>

\* No *Baseline is held by a caller of the baseline package.
BaselineHandleIdle ==
    /\ bl = <<>>
    /\ blHave = FALSE
    /\ blOp = "none"
    /\ blErr = "none"
    /\ blArg = <<>>
    /\ flInput = <<>>
    /\ flKept = <<>>

CliIdle ==
    /\ clCfg = [Image |-> "", NoBaseline |-> FALSE, WebhookURL |-> "",
                SeverityThresh |-> "high", noFail |-> FALSE]
    /\ clPc = "start"
    /\ clEngine = <<>>
    /\ clFindings = <<>>
    /\ clSuppressed = FALSE
    /\ clSendErr = ""
    /\ clErr = ""
    /\ clOut = <<>>
    /\ clExit = -1

\* The commits of the repository.
Commits == {"c1", "c2", "c3", "c4", "c5"}

GitIdle ==
    /\ gtTime = [c \in Commits |-> 1]
    /\ gtCalled = FALSE
    /\ gtRepo = TRUE
    /\ gtFrom = ""
    /\ gtTo = ""
    /\ gtFiles = <<>>
    /\ gtErr = ""

\* A flag of the scan command: whether it was given on the command line,
\* and the value of its variable (the default when it was not given).
Flag(given, value) == [given |-> given, value |-> value]

\* No flag given: the defaults of scanCmd.Flags().
DefaultFlags ==
    [image |-> Flag(FALSE, ""), compare |-> Flag(FALSE, ""),
     nobaseline |-> Flag(FALSE, FALSE), webhookurl |-> Flag(FALSE, ""),
     webhooksecret |-> Flag(FALSE, ""), severity |-> Flag(FALSE, "high")]

ConfigIdle ==
    /\ cfFile = <<>>
    /\ cfEnv = [url |-> "", secret |-> ""]
    /\ cfFlags = DefaultFlags
    /\ cfMerged = <<>>

InitSign ==
    /\ now = 0
    /\ sgOrig \in SignPayloads
    /\ sgKey \in Secrets
    /\ sgPayload = Signed(sgKey, sgOrig)
    /\ vfKey = sgKey
    /\ vfResult = "none"

\* A signed field of the payload is changed after signing.
Tamper(f, v) ==
    /\ sgPayload = Signed(sgKey, sgOrig)
    /\ sgPayload[f] # v
    /\ sgPayload' = [sgPayload EXCEPT ![f] = v]
    /\ vfResult' = "none"
    /\ UNCHANGED <<now, sgOrig, sgKey, vfKey>>
    /\ UNCHANGED notSign

\* The signature itself is removed or replaced.
TamperSign(sig) ==
    /\ sgPayload = Signed(sgKey, sgOrig)
    /\ sgPayload.Sign # sig
    /\ sgPayload' = [sgPayload EXCEPT !.Sign = sig]
    /\ vfResult' = "none"
    /\ UNCHANGED <<now, sgOrig, sgKey, vfKey>>
    /\ UNCHANGED notSign

\* The verifier is a Webhook made with secret k (NewWebhook("", k)).
VerifierSecret(k) ==
    /\ vfKey # k
    /\ vfKey' = k
    /\ vfResult' = "none"
    /\ UNCHANGED <<now, sgOrig, sgKey, sgPayload>>
    /\ UNCHANGED notSign

Verify ==
    /\ vfResult = "none"
    /\ vfResult' = verifySignature(vfKey, sgPayload)
    /\ UNCHANGED <<now, sgOrig, sgKey, sgPayload, vfKey>>
    /\ UNCHANGED notSign

SignTick ==
    /\ now < MaxTicks * TickStep
    /\ now' = now + TickStep
    /\ vfResult' = "none"
    /\ UNCHANGED <<sgOrig, sgKey, sgPayload, vfKey>>
    /\ UNCHANGED notSign

ForgedSigns ==
    {NoSign,
     <<[Algorithm |-> "HMAC-SHA1", Value |-> Hmac(sgKey, MarshalUnsigned(sgOrig))]>>,
     <<[Algorithm |-> "HMAC-SHA256", Value |-> <<"invalid-signature">>]>>}

NextSign ==
    \/ \E f \in SignedFields : \E v \in FieldValues(f) : Tamper(f, v)
    \/ \E sig \in ForgedSigns : TamperSign(sig)
    \/ \E k \in Secrets : VerifierSecret(k)
    \/ Verify
    \/ SignTick

InitWebhookSpec == InitWebhook /\ SignIdle /\ BaselineIdle /\ RunIdle /\ CliIdle /\ GitIdle
    /\ ConfigIdle

SpecWebhook == InitWebhookSpec /\ [][NextWebhook]_vars

(***************************************************************************)
(* Send called concurrently: the goroutines of Callers call Send on one    *)
(* Webhook with payloads generated now, generateNonce giving all of them   *)
(* the same nonce.  No time passes while they run.                         *)
(***************************************************************************)
InitConcurrent ==
    /\ now = 0
    /\ urlValid \in BOOLEAN
    /\ nonces = <<>>
    /\ testNonce \in TestNonces
    /\ sweeps = 0
    /\ pc = [s \in Callers |-> "idle"]
    /\ payload = [s \in Callers |-> NewPayload("run-1", 0)]
    /\ i = [s \in Callers |-> 0]
    /\ lastErr = [s \in Callers |-> <<>>]
    /\ resps = [s \in Callers |-> <<>>]
    /\ result = [s \in Callers |-> "none"]
    /\ resend = [s \in Callers |-> FALSE]
    /\ override = [s \in Callers |-> FALSE]
    /\ sent = [s \in Callers |-> <<>>]

\* What the server answers in these runs.
ConcurrentOutcomes == {o \in Outcomes : o.transport \/ o.status = 200}

\* wh.Send(payload) in goroutine s, once per goroutine.
CallSend(s, r) ==
    /\ pc[s] = "idle"
    /\ SendBegin(s, NewPayload(r, now), FALSE)

NextConcurrent ==
    \/ \E s \in Callers, r \in RunIDs : CallSend(s, r)
    \/ \E s \in Callers : CheckNonce(s)
    \/ \E s \in Callers : StoreNonce(s)
    \/ \E s \in Callers, o \in ConcurrentOutcomes : Attempt(s, o)
    \/ Sweep

InitConcurrentSpec ==
    InitConcurrent /\ SignIdle /\ BaselineIdle /\ RunIdle /\ CliIdle /\ GitIdle
    /\ ConfigIdle

SpecConcurrent == InitConcurrentSpec /\ [][NextConcurrent]_vars

InitSignSpec == InitSign /\ WebhookIdle /\ BaselineIdle /\ RunIdle /\ CliIdle /\ GitIdle
    /\ ConfigIdle

SpecSign == InitSignSpec /\ [][NextSign]_vars

(***************************************************************************)
(* The baseline store.                                                     *)
(***************************************************************************)
Digits == <<"0", "1", "2", "3", "4", "5", "6", "7", "8", "9">>

\* fmt.Sprintf("%d", n)
RECURSIVE Decimal(_)
Decimal(n) ==
    IF n < 0 THEN "-" \o Decimal(-n)
    ELSE IF n < 10 THEN Digits[n + 1]
    ELSE Decimal(n \div 10) \o Digits[(n % 10) + 1]

\* fingerprint: the hash of rule id, path and line written one after another.
fingerprint(finding) ==
    Sha256Hex(finding.RuleID \o finding.Path \o Decimal(finding.Line))

\* A time.Time: the instant, and whether it carries a monotonic reading.
TimeNow == [wall |-> now, mono |-> TRUE]

\* The Baseline Load returns when there is no file.
EmptyBaseline ==
    [Version |-> "1.0", CreatedBy |-> "", CreatedAt |-> TimeNow, Findings |-> <<>>]

\* json.MarshalIndent(b): strings coerced to valid UTF-8, the time in
\* RFC 3339 (the instant, without the monotonic reading).
MarshalBaseline(b) ==
    [version |-> JsonString(b.Version), createdBy |-> JsonString(b.CreatedBy),
     createdAt |-> b.CreatedAt.wall,
     findings |-> [k \in 1 .. Len(b.Findings) |->
                     [ruleId |-> JsonString(b.Findings[k].RuleID),
                      path |-> JsonString(b.Findings[k].Path),
                      line |-> b.Findings[k].Line,
                      fingerprint |-> JsonString(b.Findings[k].Fingerprint)]]]

\* json.Unmarshal(data, &baseline) of a JSON object; a key that is missing
\* leaves the zero value, which the document carries here.
UnmarshalBaseline(doc) ==
    [Version |-> doc.version, CreatedBy |-> doc.createdBy,
     CreatedAt |-> [wall |-> doc.createdAt, mono |-> FALSE],
     Findings |-> [k \in 1 .. Len(doc.findings) |->
                     [RuleID |-> doc.findings[k].ruleId,
                      Path |-> doc.findings[k].path,
                      Line |-> doc.findings[k].line,
                      Fingerprint |-> doc.findings[k].fingerprint]]]

\* The file: absent, unreadable (os.ReadFile fails otherwise), not JSON of
\* the Baseline shape ("garbage": json.Unmarshal fails), or a JSON document.
File(kind, doc) == [kind |-> kind, doc |-> doc]
NoDoc == [version |-> "", createdBy |-> "", createdAt |-> 0, findings |-> <<>>]

\* Load: the Baseline and the error.
LoadResult(file) ==
    CASE file.kind = "absent" -> [err |-> "ok", b |-> <<EmptyBaseline>>]
      [] file.kind = "unreadable" -> [err |-> "read-failed", b |-> <<>>]
      [] file.kind = "garbage" -> [err |-> "parse-failed", b |-> <<>>]
      [] file.kind = "doc" -> [err |-> "ok", b |-> <<UnmarshalBaseline(file.doc)>>]

\* IsSuppressed returning false at the first entry that does not match.
RECURSIVE IsSuppressedFirstOnly(_, _)
IsSuppressedFirstOnly(entries, finding) ==
    IF entries = <<>> THEN FALSE
    ELSE Head(entries).Fingerprint = fingerprint(finding)

\* IsSuppressed: the loop over b.Findings.
RECURSIVE IsSuppressed(_, _)
IsSuppressed(entries, finding) ==
    IF entries = <<>> THEN FALSE
    ELSE IF Head(entries).Fingerprint = fingerprint(finding) THEN TRUE
    ELSE IsSuppressed(Tail(entries), finding)

\* Filter: the loop over findings, appending the ones not suppressed.
RECURSIVE Filter(_, _)
Filter(entries, findings) ==
    IF findings = <<>> THEN <<>>
    ELSE IF ~IsSuppressed(entries, Head(findings))
         THEN <<Head(findings)>> \o Filter(entries, Tail(findings))
         ELSE Filter(entries, Tail(findings))

\* Add without the duplicate check.
AddAlways(b, finding) ==
    [err |-> "ok",
     b |-> [b EXCEPT !.Findings = Append(@,
              [RuleID |-> finding.RuleID, Path |-> finding.Path,
               Line |-> finding.Line, Fingerprint |-> fingerprint(finding)])]]

\* Add: the error and the Baseline afterwards.
AddResult(b, finding) ==
    IF \E k \in 1 .. Len(b.Findings) : b.Findings[k].Fingerprint = fingerprint(finding)
    THEN [err |-> "duplicate", b |-> b]
    ELSE [err |-> "ok",
          b |-> [b EXCEPT !.Findings = Append(@,
                   [RuleID |-> finding.RuleID, Path |-> finding.Path,
                    Line |-> finding.Line, Fingerprint |-> fingerprint(finding)])]]

\* The findings handed to Add and Filter.
BaselineFindings ==
    {NewFinding("k", "a1", 2, "AKIA"), NewFinding("k", "a", 12, "AKIB"),
     NewFinding("k", "\\xff", 2, "AKIA")}

RECURSIVE SeqsUpTo(_, _)
SeqsUpTo(S, n) ==
    IF n = 0 THEN {<<>>}
    ELSE LET shorter == SeqsUpTo(S, n - 1)
         IN shorter \cup {Append(q, x) : q \in shorter, x \in S}

Entry(ruleID, path, line, fp) ==
    [ruleId |-> ruleID, path |-> path, line |-> line, fingerprint |-> fp]

\* The documents found on disk when the program starts.
InitialDocs ==
    {[version |-> v, createdBy |-> "", createdAt |-> 0, findings |-> fs] :
        v \in {"", "1.0"},
        fs \in {<<>>,
                <<Entry("k", "a", 2, fingerprint(NewFinding("k", "a", 2, "")))>>,
                <<Entry("", "", -1, "")>>,
                <<Entry("k", "a", 2, "fp"), Entry("k", "b", 3, "fp")>>}}

InitialFiles ==
    {File("absent", NoDoc), File("unreadable", NoDoc), File("garbage", NoDoc)}
    \cup {File("doc", d) : d \in InitialDocs}

\* The run is at time TickStep; the documents on disk were written at 0.
InitBaseline ==
    /\ now = TickStep
    /\ blFile \in InitialFiles
    /\ bl = EmptyBaseline
    /\ blHave = FALSE
    /\ blOp = "none"
    /\ blErr = "none"
    /\ blArg = <<>>
    /\ flInput = <<>>
    /\ flKept = <<>>

\* b, err := Load(dir)
Load ==
    /\ LET r == LoadResult(blFile)
       IN /\ blErr' = r.err
          /\ blHave' = (r.err = "ok")
          /\ bl' = IF r.err = "ok" THEN r.b[1] ELSE bl
    /\ blOp' = "load"
    /\ blArg' = <<>>
    /\ flInput' = <<>>
    /\ flKept' = <<>>
    /\ UNCHANGED <<now, blFile>>
    /\ UNCHANGED notBaseline

\* err := b.Add(finding)
Add(finding) ==
    /\ blHave
    /\ LET r == AddResult(bl, finding)
       IN /\ Len(r.b.Findings) <= MaxEntries
          /\ blErr' = r.err
          /\ bl' = r.b
    /\ blOp' = "add"
    /\ blArg' = <<finding>>
    /\ flInput' = <<>>
    /\ flKept' = <<>>
    /\ UNCHANGED <<now, blFile, blHave>>
    /\ UNCHANGED notBaseline

\* err := b.Save(dir): os.WriteFile opens the file truncating it and writes
\* the document.  outcome "ok": written; "open-failed": the file could not
\* be opened; "write-failed": the write failed after the truncation.
Save(outcome) ==
    /\ blHave
    /\ blFile' = CASE outcome = "ok" -> File("doc", MarshalBaseline(bl))
                   [] outcome = "open-failed" -> blFile
                   [] outcome = "write-failed" -> File("garbage", NoDoc)
    /\ blErr' = IF outcome = "ok" THEN "ok" ELSE "write-failed"
    /\ blOp' = "save"
    /\ blArg' = <<>>
    /\ flInput' = <<>>
    /\ flKept' = <<>>
    /\ UNCHANGED <<now, bl, blHave>>
    /\ UNCHANGED notBaseline

\* kept := b.Filter(findings)
DoFilter(findings) ==
    /\ blHave
    /\ flInput' = findings
    /\ flKept' = Filter(bl.Findings, findings)
    /\ blOp' = "filter"
    /\ blErr' = "ok"
    /\ blArg' = <<>>
    /\ UNCHANGED <<now, blFile, bl, blHave>>
    /\ UNCHANGED notBaseline

NextBaseline ==
    \/ Load
    \/ \E f \in BaselineFindings : Add(f)
    \/ \E o \in {"ok", "open-failed", "write-failed"} : Save(o)
    \/ \E fs \in SeqsUpTo(BaselineFindings, MaxFindings) : DoFilter(fs)

InitBaselineSpec == InitBaseline /\ WebhookIdle /\ SignIdle /\ RunIdle /\ CliIdle /\ GitIdle
    /\ ConfigIdle

SpecBaseline == InitBaselineSpec /\ [][NextBaseline]_vars

(***************************************************************************)
(* SecretScanner.Run: one goroutine per root, started through an errgroup  *)
(* with SetLimit(opts.Threads), each walking its root with filepath.WalkDir *)
(* and appending to the shared findings slice under the mutex.             *)
(***************************************************************************)
\* s.rules, in their order.
Rules ==
    <<[ID |-> "aws-access-key", Description |-> "AWS Access Key detected",
       Severity |-> "high"],
      [ID |-> "aws-secret-key", Description |-> "AWS Secret Key detected",
       Severity |-> "critical"],
      [ID |-> "generic-token", Description |-> "Generic token detected",
       Severity |-> "medium"]>>

\* A match of a rule's pattern in a line: the rule and the captured text.
Token(rule, text) == [rule |-> rule, text |-> text]

\* The files of the tree: their lines, each line the matches it holds from
\* left to right.
Content(path) ==
    CASE path = "a/k.env" ->
            << <<Token("generic-token", "tok1"), Token("generic-token", "tok2")>>,
               <<Token("aws-access-key", "AKIA")>> >>
      [] path = "a/.h/s.txt" -> << <<Token("aws-secret-key", "skey")>> >>
      [] path = "b/k.env" -> << <<Token("aws-access-key", "AKIA")>> >>
      [] path = "c/.t.env" -> << <<Token("aws-access-key", "AKIC")>> >>
      [] path = "/x/secret.env" -> << <<Token("aws-secret-key", "xkey")>> >>
      [] path = "l/k.env" -> << <<Token("aws-access-key", "AKIL")>> >>
      [] path = "s/at.env" -> << <<Token("aws-access-key", "AKI1")>> >>
      [] path = "s/over.env" -> << <<Token("aws-access-key", "AKI2")>> >>
      [] path = "/g/k.env" -> << <<Token("aws-access-key", "AKIG")>> >>
      [] OTHER -> <<>>

\* strings.Index(line, match[1]) + 1: the place of the first occurrence of
\* the text in the line.
Column(line, text) ==
    CHOOSE c \in 1 .. Len(line) :
        /\ line[c].text = text
        /\ \A d \in 1 .. c - 1 : line[d].text # text

\* The Finding ScanReader builds for one match.
ScanFinding(rule, path, lineNo, line, text) ==
    [Type |-> "secret", RuleID |-> rule.ID, Description |-> rule.Description,
     Severity |-> rule.Severity, Path |-> path, Line |-> lineNo,
     Column |-> Column(line, text), Match |-> text, Context |-> line,
     Fingerprint |-> Sha256Hex(text)]

\* The inner loops of ScanReader for one line: the rules from r on, and for
\* each the matches of its pattern in the line.
RECURSIVE ScanLine(_, _, _, _)
ScanLine(line, lineNo, path, r) ==
    IF r > Len(Rules) THEN <<>>
    ELSE LET matches == SelectSeq(line, LAMBDA t : t.rule = Rules[r].ID)
         IN [m \in 1 .. Len(matches) |->
                ScanFinding(Rules[r], path, lineNo, line, matches[m].text)]
            \o ScanLine(line, lineNo, path, r + 1)

\* ScanReader: the loop over the lines, from line n on.
RECURSIVE ScanReader(_, _, _)
ScanReader(lines, path, n) ==
    IF n > Len(lines) THEN <<>>
    ELSE ScanLine(lines[n], n, path, 1) \o ScanReader(lines, path, n + 1)

\* The symbolic links of the tree and what each points to: "c/esc.env" to
\* a file outside the root "c", "l/a" and "l/b" to each other.
Links == {"c/esc.env", "l/a", "l/b"}

LinkTarget(path) ==
    CASE path = "c/esc.env" -> "/x/secret.env"
      [] path = "l/a" -> "l/b"
      [] path = "l/b" -> "l/a"

\* The file os.Open(path) opens: it follows symbolic links, and fails with
\* ELOOP on a cycle of them ("": no file).
RECURSIVE Resolve(_, _)
Resolve(path, seen) ==
    IF path \notin Links THEN path
    ELSE IF path \in seen THEN ""
    ELSE Resolve(LinkTarget(path), seen \cup {path})

\* ScanFile: the error of os.Open, or what ScanReader finds in the file
\* that was opened, reported under the path that was given.
ScanFile(path) ==
    IF path \in fsDenied THEN [err |-> "permission denied", findings |-> <<>>]
    ELSE IF Resolve(path, {}) = ""
         THEN [err |-> "too many levels of symbolic links", findings |-> <<>>]
    ELSE [err |-> "", findings |-> ScanReader(Content(Resolve(path, {})), path, 1)]

\* What filepath.WalkDir hands to the callback: the path, d.Name(),
\* d.IsDir(), filepath.Ext(path), the size, the directories above the entry
\* and the error of reading the entry.
DirEntry(path, name, dir, ext, size, under, err) ==
    [path |-> path, name |-> name, dir |-> dir, ext |-> ext, size |-> size,
     under |-> under, err |-> err]

\* The entries below "a" and "b", in lexical order.
EntriesA(above) ==
    <<DirEntry("a", "a", TRUE, "", 0, above, ""),
      DirEntry("a/.h", ".h", TRUE, "", 0, above \cup {"a"}, ""),
      DirEntry("a/.h/s.txt", "s.txt", FALSE, ".txt", 1, above \cup {"a", "a/.h"}, ""),
      DirEntry("a/k.env", "k.env", FALSE, ".env", 2, above \cup {"a"}, "")>>

EntriesB(above) ==
    <<DirEntry("b", "b", TRUE, "", 0, above, ""),
      DirEntry("b/k.env", "k.env", FALSE, ".env", 1, above \cup {"b"}, "")>>

\* The size cap of the configuration reference, in bytes.
DefaultMaxFileSize == 10 * 1024 * 1024

\* "c": a hidden file and a symbolic link that leaves the root.  WalkDir
\* does not follow links: a link is an entry that is not a directory.
EntriesC ==
    <<DirEntry("c", "c", TRUE, "", 0, {}, ""),
      DirEntry("c/.t.env", ".t.env", FALSE, ".env", 1, {"c"}, ""),
      DirEntry("c/esc.env", "esc.env", FALSE, ".env", 1, {"c"}, "")>>

\* "l": two links that form a cycle, and a file.
EntriesL ==
    <<DirEntry("l", "l", TRUE, "", 0, {}, ""),
      DirEntry("l/a", "a", FALSE, "", 1, {"l"}, ""),
      DirEntry("l/b", "b", FALSE, "", 1, {"l"}, ""),
      DirEntry("l/k.env", "k.env", FALSE, ".env", 1, {"l"}, "")>>

\* "s": a file of exactly DefaultMaxFileSize bytes and one of a byte more.
EntriesS ==
    <<DirEntry("s", "s", TRUE, "", 0, {}, ""),
      DirEntry("s/at.env", "at.env", FALSE, ".env", DefaultMaxFileSize, {"s"}, ""),
      DirEntry("s/over.env", "over.env", FALSE, ".env", DefaultMaxFileSize + 1, {"s"}, "")>>

\* The walk of a root: "." holds "a" and "b"; "/m" does not exist, so the
\* callback is called once, with the error of os.Lstat.
Walk(root) ==
    CASE root = "." ->
            <<DirEntry(".", ".", TRUE, "", 0, {}, "")>>
            \o EntriesA({"."}) \o EntriesB({"."})
      [] root = "a" -> EntriesA({})
      [] root = "b" -> EntriesB({})
      [] root = "c" -> EntriesC
      [] root = "l" -> EntriesL
      [] root = "s" -> EntriesS
      [] root = "/m" ->
            <<DirEntry("/m", "m", FALSE, "", 0, {}, "no such file or directory")>>
      [] OTHER -> <<>>

\* The files of the HEAD tree of the repository at "/g".
HeadFiles(root) == IF root = "/g" THEN <<"/g/k.env">> ELSE <<>>

\* isGitRepo: os.Stat(path/.git) succeeds.
isGitRepo(path) == path = "/g"

\* strings.HasPrefix(name, ".")
HasDotPrefix(name) == name \in {".", ".h", ".git", ".t.env"}

\* The callback Run hands to WalkDir, for one entry: "err" (the walk ends
\* with e), "skipdir", "skip" (return nil before the scan) or "scan".
Callback(opts, e) ==
    IF e.err # "" THEN "err"
    ELSE IF e.dir
         THEN IF opts.SkipHidden /\ HasDotPrefix(e.name) THEN "skipdir" ELSE "skip"
    ELSE IF opts.IncludeExt # {} /\ e.ext \notin opts.IncludeExt THEN "skip"
    ELSE IF e.ext \in opts.ExcludeExt THEN "skip"
    ELSE IF opts.MaxFileSize > 0 /\ e.size > opts.MaxFileSize THEN "skip"
    ELSE "scan"

\* if len(paths) == 0 { paths = []string{"."} }
Roots == IF rnPaths = <<>> THEN <<".">> ELSE rnPaths

\* The goroutines of the group that are running.
Active == {k \in DOMAIN wk : wk[k].pc = "running"}

Queued == [pc |-> "queued", pos |-> 1, skipped |-> {}, err |-> ""]

\* The arguments of Run and the state of the tree.
PathLists ==
    {<<>>, <<"a">>, <<"a", "b">>, <<"b", "a">>, <<"/m", "b">>, <<"b", "/g">>,
     <<"c">>, <<"l">>, <<"s">>}

ThreadValues == {-1, 0, 1, 2}

FilterOptions ==
    {[SkipHidden |-> FALSE, IncludeExt |-> {}, ExcludeExt |-> {}, MaxFileSize |-> 0],
     [SkipHidden |-> TRUE, IncludeExt |-> {".env"}, ExcludeExt |-> {}, MaxFileSize |-> 0],
     [SkipHidden |-> FALSE, IncludeExt |-> {}, ExcludeExt |-> {".txt"}, MaxFileSize |-> 1],
     [SkipHidden |-> FALSE, IncludeExt |-> {}, ExcludeExt |-> {},
      MaxFileSize |-> DefaultMaxFileSize]}

Options ==
    {[Threads |-> t, SkipHidden |-> o.SkipHidden, IncludeExt |-> o.IncludeExt,
      ExcludeExt |-> o.ExcludeExt, MaxFileSize |-> o.MaxFileSize] :
        t \in ThreadValues, o \in FilterOptions}

DeniedSets == {{}, {"a/k.env"}, {"b/k.env"}}

\* Run is called: findings is nil, the group is empty.
InitRun ==
    /\ now = 0
    /\ rnPaths \in PathLists
    /\ rnOpts \in Options
    /\ fsDenied \in DeniedSets
    /\ rnNext = 0
    /\ wk = [k \in 1 .. Len(Roots) |-> Queued]
    /\ rnFindings = <<>>
    /\ rnErr = ""
    /\ rnCancelled = FALSE
    /\ rnResult = NotReturned
    /\ rnPrev = <<>>

\* g.Go for the next path: with a limit n >= 0 it blocks while n goroutines
\* of the group are active (for ever when n = 0); a negative limit is none.
Go ==
    /\ ~rnResult.done
    /\ rnNext < Len(Roots)
    /\ rnOpts.Threads < 0 \/ Cardinality(Active) < rnOpts.Threads
    /\ rnNext' = rnNext + 1
    /\ wk' = [wk EXCEPT ![rnNext + 1].pc = "running"]
    /\ UNCHANGED <<now, rnPaths, rnOpts, fsDenied, rnFindings, rnErr,
                   rnCancelled, rnResult, rnPrev>>
    /\ UNCHANGED notRun

\* The append without the mutex: an append made while another goroutine of
\* the group runs overwrites the list.
AppendUnlocked(list, found) ==
    IF Cardinality(Active) > 1 THEN found ELSE list \o found

\* mu.Lock(); findings = append(findings, fileFindings...); mu.Unlock()
AppendLocked(list, found) == list \o found

\* The goroutine returns err: the group keeps the first error that is not nil.
Return(k, err) ==
    /\ wk' = [wk EXCEPT ![k].pc = "done", ![k].err = err]
    /\ rnErr' = IF rnErr = "" THEN err ELSE rnErr

\* One step of the goroutine of root k: scanGitRepo for a git repository,
\* else the callback for the next entry of the walk.
Step(k) ==
    /\ wk[k].pc = "running"
    /\ LET root == Roots[k]
           w == Walk(root)
           pos == wk[k].pos
       IN IF isGitRepo(root) THEN Return(k, "") /\ UNCHANGED rnFindings
          ELSE IF pos > Len(w) THEN Return(k, "") /\ UNCHANGED rnFindings
          ELSE IF w[pos].under \cap wk[k].skipped # {}
               THEN /\ wk' = [wk EXCEPT ![k].pos = pos + 1]
                    /\ UNCHANGED <<rnFindings, rnErr>>
          ELSE LET e == w[pos]
                   c == Callback(rnOpts, e)
                   r == ScanFile(e.path)
               IN CASE c = "err" -> Return(k, e.err) /\ UNCHANGED rnFindings
                    [] c = "skipdir" ->
                          /\ wk' = [wk EXCEPT ![k].pos = pos + 1,
                                              ![k].skipped = @ \cup {e.path}]
                          /\ UNCHANGED <<rnFindings, rnErr>>
                    [] c = "skip" ->
                          /\ wk' = [wk EXCEPT ![k].pos = pos + 1]
                          /\ UNCHANGED <<rnFindings, rnErr>>
                    [] c = "scan" /\ r.err # "" ->
                          Return(k, r.err) /\ UNCHANGED rnFindings
                    [] c = "scan" /\ r.err = "" ->
                          /\ rnFindings' = AppendLocked(rnFindings, r.findings)
                          /\ wk' = [wk EXCEPT ![k].pos = pos + 1]
                          /\ UNCHANGED rnErr
    /\ UNCHANGED <<now, rnPaths, rnOpts, fsDenied, rnNext, rnCancelled,
                   rnResult, rnPrev>>
    /\ UNCHANGED notRun

\* g.Wait() after the loop, and the return of Run.
Wait ==
    /\ ~rnResult.done
    /\ rnNext = Len(Roots)
    /\ Active = {}
    /\ rnResult' = IF rnErr # ""
                   THEN [done |-> TRUE, findings |-> <<>>, err |-> rnErr]
                   ELSE [done |-> TRUE, findings |-> rnFindings, err |-> ""]
    /\ UNCHANGED <<now, rnPaths, rnOpts, fsDenied, rnNext, wk, rnFindings,
                   rnErr, rnCancelled, rnPrev>>
    /\ UNCHANGED notRun

\* The caller cancels the context it gave to Run, while goroutines of the
\* group are running or still to be started.
Cancel ==
    /\ ~rnResult.done
    /\ ~rnCancelled
    /\ rnNext < Len(Roots) \/ Active # {}
    /\ rnCancelled' = TRUE
    /\ UNCHANGED <<now, rnPaths, rnOpts, fsDenied, rnNext, wk, rnFindings,
                   rnErr, rnResult, rnPrev>>
    /\ UNCHANGED notRun

\* Run is called once more with the same arguments on the same tree.
RunAgain ==
    /\ rnResult.done
    /\ rnPrev = <<>>
    /\ rnPrev' = <<rnResult>>
    /\ rnNext' = 0
    /\ wk' = [k \in 1 .. Len(Roots) |-> Queued]
    /\ rnFindings' = <<>>
    /\ rnErr' = ""
    /\ rnCancelled' = FALSE
    /\ rnResult' = NotReturned
    /\ UNCHANGED <<now, rnPaths, rnOpts, fsDenied>>
    /\ UNCHANGED notRun

NextRun ==
    \/ Go
    \/ \E k \in DOMAIN wk : Step(k)
    \/ Wait
    \/ Cancel
    \/ RunAgain

InitRunSpec == InitRun /\ WebhookIdle /\ SignIdle /\ BaselineIdle /\ CliIdle /\ GitIdle
    /\ ConfigIdle

SpecRun == InitRunSpec /\ [][NextRun]_vars

\* The indexes of the goroutines Run may start.
RootIndexes == UNION {1 .. Len(ps) : ps \in PathLists \cup {<<".">>}}

\* Run under the Go scheduler: the loop over the paths goes on when g.Go can
\* return, every running goroutine takes its next step, and Run returns
\* when g.Wait can.
SpecRunFair ==
    /\ InitRunSpec
    /\ [][NextRun]_vars
    /\ WF_vars(Go)
    /\ \A k \in RootIndexes : WF_vars(k \in DOMAIN wk /\ Step(k))
    /\ WF_vars(Wait)

(***************************************************************************)
(* The scan command: scanCmd.RunE and exitWith.  The run has paths and,     *)
(* when the configuration names one, an image; what Trivy reports, the     *)
(* engine's result, the outcome of Send and the outcome of writing the     *)
(* output are inputs.                                                      *)
(***************************************************************************)
\* exitWith: the exit code.
exitWith(err, findings, suppressed, nofail) ==
    IF err # "" THEN 1
    ELSE IF ~nofail /\ \E k \in 1 .. Len(findings) :
                           findings[k].Severity \in {"critical", "high"}
         THEN IF suppressed THEN 5 ELSE 3
    ELSE 0

\* A vulnerability Trivy reports.
Vulnerability(id, severity, pkg) ==
    [VulnerabilityID |-> id, Description |-> "vulnerable", Severity |-> severity,
     PkgName |-> pkg, InstalledVersion |-> "1.0", FixedVersion |-> "1.1"]

\* The scanner.Finding image.Scanner.Scan builds from a vulnerability: the
\* fields it does not set are zero.
ImageFinding(v) ==
    [Type |-> "", RuleID |-> v.VulnerabilityID, Description |-> v.Description,
     Severity |-> v.Severity, Path |-> v.PkgName, Line |-> 0, Column |-> 0,
     Match |-> "Version: " \o v.InstalledVersion \o ", Fixed: " \o v.FixedVersion,
     Context |-> "", Fingerprint |-> ""]

\* image.Scanner.Scan: the findings of the critical and high results.
RECURSIVE ImageScan(_)
ImageScan(results) ==
    IF results = <<>> THEN <<>>
    ELSE IF Head(results).Severity \in {"CRITICAL", "HIGH"}
         THEN <<ImageFinding(Head(results))>> \o ImageScan(Tail(results))
         ELSE ImageScan(Tail(results))

\* What Trivy reports for the image.
TrivyResults ==
    {<<>>,
     <<Vulnerability("CVE-1", "HIGH", "openssl")>>,
     <<Vulnerability("CVE-2", "LOW", "zlib"), Vulnerability("CVE-3", "CRITICAL", "libc")>>}

\* What s.Run returns to the command.
EngineResults ==
    {<<>>,
     ScanReader(Content("b/k.env"), "b/k.env", 1),
     ScanReader(Content("a/k.env"), "a/k.env", 1),
     SubSeq(ScanReader(Content("a/k.env"), "a/k.env", 1), 1, 2)}

\* A baseline file that holds an entry for each of the findings.
BaselineOf(findings) ==
    File("doc",
         [version |-> "1.0", createdBy |-> "", createdAt |-> 0,
          findings |-> [k \in 1 .. Len(findings) |->
                          Entry(findings[k].RuleID, findings[k].Path,
                                findings[k].Line, fingerprint(findings[k]))]])

\* The baseline files the command finds in args[0].
CliFiles ==
    {File("absent", NoDoc), File("garbage", NoDoc),
     BaselineOf(ScanReader(Content("b/k.env"), "b/k.env", 1)),
     BaselineOf(ScanReader(Content("a/k.env"), "a/k.env", 1)),
     BaselineOf(SubSeq(ScanReader(Content("a/k.env"), "a/k.env", 1), 3, 3))}

\* The merged configuration and the --no-fail flag.
CliConfigs ==
    [Image : {"", "alpine:3"}, NoBaseline : BOOLEAN, WebhookURL : {"", "http://hook"},
     SeverityThresh : {"high", "medium"}, noFail : BOOLEAN]

InitCli ==
    /\ now = 0
    /\ blFile \in CliFiles
    /\ clCfg \in CliConfigs
    /\ clPc = "start"
    /\ clEngine = <<>>
    /\ clFindings = <<>>
    /\ clSuppressed = FALSE
    /\ clSendErr = ""
    /\ clErr = ""
    /\ clOut = <<>>
    /\ clExit = -1

\* RunE returns err: main calls exitWith(err, nil, false).
Fail(err) ==
    /\ clErr' = err
    /\ clPc' = "exited"
    /\ clExit' = exitWith(err, <<>>, FALSE, clCfg.noFail)

\* Scan container image if specified: imgFindings, err := imgScanner.Scan(...);
\* findings = append(findings, imgFindings...)
CliImage(results, err) ==
    /\ clPc = "start"
    /\ IF clCfg.Image = ""
       THEN /\ results = <<>> /\ err = ""
            /\ clPc' = "imaged"
            /\ UNCHANGED <<clEngine, clFindings, clErr, clExit>>
       ELSE IF err # ""
       THEN Fail("image scan failed") /\ UNCHANGED <<clEngine, clFindings>>
       ELSE /\ clEngine' = ImageScan(results)
            /\ clFindings' = ImageScan(results)
            /\ clPc' = "imaged"
            /\ UNCHANGED <<clErr, clExit>>
    /\ UNCHANGED <<now, blFile, clCfg, clSuppressed, clSendErr, clOut>>
    /\ UNCHANGED notCli

\* fileFindings, err := s.Run(...); findings = append(findings, fileFindings...)
CliScan(found, err) ==
    /\ clPc = "imaged"
    /\ IF err # ""
       THEN Fail("scan failed") /\ UNCHANGED <<clEngine, clFindings>>
       ELSE /\ clEngine' = clEngine \o found
            /\ clFindings' = clFindings \o found
            /\ clPc' = "scanned"
            /\ UNCHANGED <<clErr, clExit>>
    /\ UNCHANGED <<now, blFile, clCfg, clSuppressed, clSendErr, clOut>>
    /\ UNCHANGED notCli

\* Apply baseline whether or not it is disabled.
CliBaselineAlways ==
    /\ clPc = "scanned"
    /\ LET r == LoadResult(blFile)
       IN IF r.err # "ok"
          THEN Fail("failed to load baseline") /\ UNCHANGED <<clFindings, clSuppressed>>
          ELSE LET kept == Filter(r.b[1].Findings, clFindings)
               IN /\ clFindings' = kept
                  /\ clSuppressed' = (Len(kept) < Len(clFindings))
                  /\ clPc' = "filtered"
                  /\ UNCHANGED <<clErr, clExit>>
    /\ UNCHANGED <<now, blFile, clCfg, clEngine, clSendErr, clOut>>
    /\ UNCHANGED notCli

\* Apply baseline, saving the loaded baseline afterwards.
CliBaselineSaving ==
    /\ clPc = "scanned"
    /\ IF clCfg.NoBaseline
       THEN clPc' = "filtered"
            /\ UNCHANGED <<blFile, clFindings, clSuppressed, clErr, clExit>>
       ELSE LET r == LoadResult(blFile)
            IN IF r.err # "ok"
               THEN Fail("failed to load baseline")
                    /\ UNCHANGED <<blFile, clFindings, clSuppressed>>
               ELSE LET kept == Filter(r.b[1].Findings, clFindings)
                    IN /\ clFindings' = kept
                       /\ clSuppressed' = (Len(kept) < Len(clFindings))
                       /\ clPc' = "filtered"
                       /\ blFile' = File("doc", MarshalBaseline(r.b[1]))
                       /\ UNCHANGED <<clErr, clExit>>
    /\ UNCHANGED <<now, clCfg, clEngine, clSendErr, clOut>>
    /\ UNCHANGED notCli

\* Apply baseline if not disabled.
CliBaseline ==
    /\ clPc = "scanned"
    /\ IF clCfg.NoBaseline
       THEN clPc' = "filtered" /\ UNCHANGED <<clFindings, clSuppressed, clErr, clExit>>
       ELSE LET r == LoadResult(blFile)
            IN IF r.err # "ok"
               THEN Fail("failed to load baseline") /\ UNCHANGED <<clFindings, clSuppressed>>
               ELSE LET kept == Filter(r.b[1].Findings, clFindings)
                    IN /\ clFindings' = kept
                       /\ clSuppressed' = (Len(kept) < Len(clFindings))
                       /\ clPc' = "filtered"
                       /\ UNCHANGED <<clErr, clExit>>
    /\ UNCHANGED <<now, blFile, clCfg, clEngine, clSendErr, clOut>>
    /\ UNCHANGED notCli

\* Send webhook if configured; sendErr is what wh.Send returns.
CliWebhook(sendErr) ==
    /\ clPc = "filtered"
    /\ IF clCfg.WebhookURL # "" /\ Len(clFindings) > 0
       THEN /\ clSendErr' = sendErr
            /\ IF sendErr # ""
               THEN Fail("failed to send webhook")
               ELSE clPc' = "sent" /\ UNCHANGED <<clErr, clExit>>
       ELSE /\ sendErr = ""
            /\ clPc' = "sent"
            /\ UNCHANGED <<clSendErr, clErr, clExit>>
    /\ UNCHANGED <<now, blFile, clCfg, clEngine, clFindings, clSuppressed, clOut>>
    /\ UNCHANGED notCli

\* os.Create and output.WriteFindings; writeErr is the error of either.
CliOutput(writeErr) ==
    /\ clPc = "sent"
    /\ IF writeErr # ""
       THEN Fail("failed to write findings") /\ UNCHANGED clOut
       ELSE /\ clOut' = <<clFindings>>
            /\ clPc' = "written"
            /\ UNCHANGED <<clErr, clExit>>
    /\ UNCHANGED <<now, blFile, clCfg, clEngine, clFindings, clSuppressed, clSendErr>>
    /\ UNCHANGED notCli

\* exitWith(nil, findings, suppressed)
CliExit ==
    /\ clPc = "written"
    /\ clExit' = exitWith("", clFindings, clSuppressed, clCfg.noFail)
    /\ clPc' = "exited"
    /\ UNCHANGED <<now, blFile, clCfg, clEngine, clFindings, clSuppressed,
                   clSendErr, clErr, clOut>>
    /\ UNCHANGED notCli

\* The arguments given to `baseline add`: a rule id, and the two fingerprints
\* of the finding in b/k.env (the one of the baseline, the one of the finding).
AddArgs ==
    {"aws-access-key",
     fingerprint(ScanReader(Content("b/k.env"), "b/k.env", 1)[1]),
     ScanReader(Content("b/k.env"), "b/k.env", 1)[1].Fingerprint}

\* scanner.Finding{RuleID: args[0]}: every other field is zero.
FindingOfArg(arg) ==
    [Type |-> "", RuleID |-> arg, Description |-> "", Severity |-> "", Path |-> "",
     Line |-> 0, Column |-> 0, Match |-> "", Context |-> "", Fingerprint |-> ""]

\* What `baseline add arg` leaves on disk: nothing new when Load or Add
\* fails, else what Save writes (outcome as for Save).
FileAfterAdd(file, arg, outcome) ==
    LET r == LoadResult(file)
    IN IF r.err # "ok" THEN file
       ELSE LET a == AddResult(r.b[1], FindingOfArg(arg))
            IN IF a.err # "ok" THEN file
               ELSE CASE outcome = "ok" -> File("doc", MarshalBaseline(a.b))
                      [] outcome = "open-failed" -> file
                      [] outcome = "write-failed" -> File("garbage", NoDoc)

\* baselineAddCmd.RunE, run before or after a scan.
CliBaselineAdd(arg, outcome) ==
    /\ clPc \in {"start", "exited"}
    /\ Len(LoadResult(blFile).b) = 1 =>
          Len(LoadResult(blFile).b[1].Findings) < MaxEntries
    /\ blFile' = FileAfterAdd(blFile, arg, outcome)
    /\ UNCHANGED <<now, cliVars>>
    /\ UNCHANGED notCli

NextCli ==
    \/ \E results \in TrivyResults : CliImage(results, "")
    \/ CliImage(<<>>, "failed to scan image")
    \/ \E found \in EngineResults : CliScan(found, "")
    \/ CliScan(<<>>, "walk failed")
    \/ CliBaseline
    \/ \E e \in {"", "failed after 3 retries"} : CliWebhook(e)
    \/ \E e \in {"", "write failed"} : CliOutput(e)
    \/ CliExit
    \/ \E arg \in AddArgs, o \in {"ok", "open-failed", "write-failed"} :
          CliBaselineAdd(arg, o)

InitCliSpec == InitCli /\ WebhookIdle /\ SignIdle /\ BaselineHandleIdle /\ RunIdle /\ GitIdle
    /\ ConfigIdle

SpecCli == InitCliSpec /\ [][NextCli]_vars

(***************************************************************************)
(* gitx.FilesInRange.  The repository: c1 <- c2 <- c3 <- c4 and the side   *)
(* branch c1 <- c5.                                                        *)
(***************************************************************************)
\* The parents of a commit, first parent first.
Parents(c) ==
    CASE c = "c1" -> <<>>
      [] c = "c2" -> <<"c1">>
      [] c = "c3" -> <<"c2">>
      [] c = "c4" -> <<"c3">>
      [] c = "c5" -> <<"c1">>

\* tree.Files() of a commit: the names, in the order of the tree.
TreeFiles(c) ==
    CASE c = "c1" -> <<"a.txt", "old.txt">>
      [] c = "c2" -> <<"a.txt", "f.txt">>
      [] c = "c3" -> <<"a.txt", "n.txt">>
      [] c = "c4" -> <<"a.txt", "m.txt", "n.txt">>
      [] c = "c5" -> <<"a.txt", "old.txt", "side.txt">>

\* The revisions handed to FilesInRange; "bad" resolves to nothing.
Revisions == Commits \cup {"bad"}

CommitTimes == {1, 2, 3}

\* t.After(u) with a difference of at least two.
AfterByTwo(t, u) == t > u + 1

\* time.Time.After
After(t, u) == t > u

\* object.NewCommitPreorderIter(c, nil, nil): the commits in the order the
\* iterator yields them: a commit, then the walk of its parents, each commit
\* once.  todo holds the commits still to be looked at, the next one first.
RECURSIVE Preorder(_, _)
Preorder(todo, seen) ==
    IF todo = <<>> THEN <<>>
    ELSE IF Head(todo) \in seen THEN Preorder(Tail(todo), seen)
    ELSE <<Head(todo)>>
         \o Preorder(Parents(Head(todo)) \o Tail(todo), seen \cup {Head(todo)})

\* The inner ForEach: the names of a tree not seen before are appended.
RECURSIVE AppendUnseen(_, _)
AppendUnseen(files, names) ==
    IF names = <<>> THEN files
    ELSE IF \E n \in 1 .. Len(files) : files[n] = Head(names)
         THEN AppendUnseen(files, Tail(names))
         ELSE AppendUnseen(Append(files, Head(names)), Tail(names))

\* The outer ForEach: the callback returns nil for the commit from, which
\* lets the iteration go on with the next commit, and else collects the
\* files of the commit's tree.
RECURSIVE Collect(_, _, _)
Collect(commits, from, files) ==
    IF commits = <<>> THEN files
    ELSE IF Head(commits) = from THEN Collect(Tail(commits), from, files)
    ELSE Collect(Tail(commits), from, AppendUnseen(files, TreeFiles(Head(commits))))

\* FilesInRange: the files and the error.
FilesInRange(repo, from, to) ==
    IF ~repo THEN [files |-> <<>>, err |-> "repository does not exist"]
    ELSE IF from \notin Commits \/ to \notin Commits
         THEN [files |-> <<>>, err |-> "reference not found"]
    ELSE IF After(gtTime[from], gtTime[to])
         THEN [files |-> <<>>, err |-> "ErrInvalidRange"]
    ELSE [files |-> Collect(Preorder(<<to>>, {}), from, <<>>), err |-> ""]

InitGit ==
    /\ now = 0
    /\ gtTime \in [Commits -> CommitTimes]
    /\ gtCalled = FALSE
    /\ gtRepo = TRUE
    /\ gtFrom = ""
    /\ gtTo = ""
    /\ gtFiles = <<>>
    /\ gtErr = ""

\* files, err := FilesInRange(repoPath, from, to)
CallFilesInRange(repo, from, to) ==
    /\ ~gtCalled
    /\ gtCalled' = TRUE
    /\ gtRepo' = repo
    /\ gtFrom' = from
    /\ gtTo' = to
    /\ gtFiles' = FilesInRange(repo, from, to).files
    /\ gtErr' = FilesInRange(repo, from, to).err
    /\ UNCHANGED <<now, gtTime>>
    /\ UNCHANGED notGit

NextGit ==
    \E repo \in BOOLEAN : \E from \in Revisions : \E to \in Revisions :
        CallFilesInRange(repo, from, to)

InitGitSpec == InitGit /\ WebhookIdle /\ SignIdle /\ BaselineIdle /\ RunIdle /\ CliIdle
    /\ ConfigIdle

SpecGit == InitGitSpec /\ [][NextGit]_vars

(***************************************************************************)
(* The configuration of a scan: scanner.LoadConfig of the file, then       *)
(* scanner.MergeConfig with the environment and the flag variables.        *)
(***************************************************************************)
ScannerConfig(image, compare, nobaseline, url, secret, severity) ==
    [Image |-> image, CompareImage |-> compare, NoBaseline |-> nobaseline,
     WebhookURL |-> url, WebhookSecret |-> secret, SeverityThresh |-> severity]

\* LoadConfig: the default when there is no file, else the file with the
\* severity defaulted.
LoadConfig(file) ==
    IF file = <<>> THEN ScannerConfig("", "", FALSE, "", "", "high")
    ELSE IF file[1].SeverityThresh = ""
         THEN [file[1] EXCEPT !.SeverityThresh = "high"]
    ELSE file[1]

\* A string option of MergeConfig: v replaces the value when it is not "".
Override(value, v) == IF v # "" THEN v ELSE value

\* MergeConfig(config, flags), flags holding the flag variables.
MergeConfig(config, env, flags) ==
    [Image |-> Override(config.Image, flags.image.value),
     CompareImage |-> Override(config.CompareImage, flags.compare.value),
     NoBaseline |-> flags.nobaseline.value,
     WebhookURL |-> Override(Override(config.WebhookURL, env.url), flags.webhookurl.value),
     WebhookSecret |->
        Override(Override(config.WebhookSecret, env.secret), flags.webhooksecret.value),
     SeverityThresh |-> Override(config.SeverityThresh, flags.severity.value)]

\* The configuration files, environments and command lines.
ConfigFiles ==
    {<<>>} \cup
    {<<ScannerConfig("", "", nb, url, secret, sev)>> :
        nb \in BOOLEAN, url \in {"", "file-url"}, secret \in {"", "file-secret"},
        sev \in {"", "medium"}}

Environments == [url : {"", "env-url"}, secret : {"", "env-secret"}]

CommandLines ==
    [image : {Flag(FALSE, ""), Flag(TRUE, "img")},
     compare : {Flag(FALSE, "")},
     nobaseline : {Flag(FALSE, FALSE), Flag(TRUE, TRUE), Flag(TRUE, FALSE)},
     webhookurl : {Flag(FALSE, ""), Flag(TRUE, "flag-url")},
     webhooksecret : {Flag(FALSE, ""), Flag(TRUE, "flag-secret")},
     severity : {Flag(FALSE, "high"), Flag(TRUE, "low")}]

InitConfig ==
    /\ now = 0
    /\ cfFile \in ConfigFiles
    /\ cfEnv \in Environments
    /\ cfFlags \in CommandLines
    /\ cfMerged = <<>>

\* config, err := scanner.LoadConfig(configPath);
\* config = scanner.MergeConfig(config, flags)
Merge ==
    /\ cfMerged = <<>>
    /\ cfMerged' = <<MergeConfig(LoadConfig(cfFile), cfEnv, cfFlags)>>
    /\ UNCHANGED <<cfFile, cfEnv, cfFlags>>
    /\ UNCHANGED notConfig

NextConfig == Merge

InitConfigSpec ==
    InitConfig /\ WebhookIdle /\ SignIdle /\ BaselineIdle /\ RunIdle /\ CliIdle
    /\ GitIdle

SpecConfig == InitConfigSpec /\ [][NextConfig]_vars

(***************************************************************************)
(* Claims about the webhook dispatcher.                                    *)
(***************************************************************************)
Status(c) == [transport |-> FALSE, status |-> c]

No2xx(rs) == \A k \in 1 .. Len(rs) : ~(rs[k].status >= 200 /\ rs[k].status < 300 /\ ~rs[k].transport)

\* C1: a payload sent again through Send on the same Webhook, still within
\* max_age and with no testNonce override, is rejected as a replay and no
\* HTTP request is issued for it.
C1_ResendRejectedAsReplay ==
    \A s \in Senders :
        (urlValid /\ resend[s] /\ ~override[s] /\ result[s] # "expired") =>
            /\ resps[s] = <<>>
            /\ pc[s] = "done" => result[s] = "replay"

\* C2: when the first k < 3 attempts are answered with a status >= 500 and
\* attempt k+1 with a 2xx, Send has returned success after exactly k+1
\* attempts: nothing follows the first 2xx.
C2_SuccessAfterServerErrors ==
    \A s \in Senders : \A k \in 0 .. maxRetries - 1 :
        ( /\ Len(resps[s]) >= k + 1
          /\ \A j \in 1 .. k : ~resps[s][j].transport /\ resps[s][j].status >= 500
          /\ ~resps[s][k + 1].transport
          /\ resps[s][k + 1].status >= 200 /\ resps[s][k + 1].status < 300 )
        => (Len(resps[s]) = k + 1 /\ pc[s] = "done" /\ result[s] = "ok")

C2_Witness ==
    \E s \in Senders :
        /\ resps[s] = <<Status(500), Status(500), Status(200)>>
        /\ pc[s] = "done" /\ result[s] = "ok"

\* C3: Send makes at most maxRetries = 3 HTTP attempts whatever the
\* transport errors and statuses, and a Send that returned after attempts of
\* which none got a 2xx returned the delivery failure carrying the status or
\* transport cause of its last attempt.
C3_AtMostThreeAttempts ==
    \A s \in Senders :
        /\ Len(resps[s]) <= maxRetries
        /\ (pc[s] = "done" /\ resps[s] # <<>> /\ No2xx(resps[s])) =>
               /\ result[s] = "failed"
               /\ lastErr[s] = <<resps[s][Len(resps[s])]>>

C3_Witness ==
    \E s \in Senders :
        /\ pc[s] = "done" /\ result[s] = "failed"
        /\ Len(resps[s]) = maxRetries
        /\ resps[s][1] = Status(500)
        /\ resps[s][maxRetries].transport

\* C4: a response status in [400,500) other than 408 and 429 ends Send at
\* once: it is the only attempt, Send has failed and no retry follows.
C4_ClientErrorNotRetried ==
    \A s \in Senders : \A k \in 1 .. Len(resps[s]) :
        ( /\ ~resps[s][k].transport
          /\ resps[s][k].status >= 400 /\ resps[s][k].status < 500
          /\ resps[s][k].status \notin {408, 429} )
        => (k = 1 /\ Len(resps[s]) = 1 /\ pc[s] = "done" /\ result[s] = "failed")

\* A step in which Send is called by s.
SendCalled(s) ==
    /\ pc[s] \in {"idle", "done"}
    /\ <<pc[s], payload[s], result[s], resend[s], override[s], resps[s]>> #
       <<pc'[s], payload'[s], result'[s], resend'[s], override'[s], resps'[s]>>

\* C5: a Send of a payload whose generated_at is older than max_age returns
\* the expired error at once: no HTTP request, no cleanup goroutine, and the
\* nonce cache as it was.
C5_ExpiredRejectedFirst ==
    [][\A s \in Senders :
          (SendCalled(s) /\ now - payload'[s].GeneratedAt > maxAge) =>
              /\ pc'[s] = "done" /\ result'[s] = "expired"
              /\ resps'[s] = <<>>
              /\ nonces' = nonces /\ sweeps' = sweeps]_vars

C5_Witness ==
    \E s \in Senders :
        /\ pc[s] = "done" /\ result[s] = "expired"
        /\ now - payload[s].GeneratedAt > maxAge
        /\ DOMAIN nonces # {}

(***************************************************************************)
(* Claims about signPayload and verifySignature.                           *)
(***************************************************************************)
\* The signature is the one signPayload made; the payload was not expired
\* when it was signed and verified.
VerifiedSigned ==
    /\ vfResult # "none"
    /\ now - sgOrig.GeneratedAt <= maxAge
    /\ sgPayload.Sign = <<signPayload(sgKey, sgOrig)>>

FieldChanged == \E f \in SignedFields : sgPayload[f] # sgOrig[f]

\* What encoding/json writes for the value v of field f.
JsonField(f, v) ==
    CASE f = "Findings" -> [k \in 1 .. Len(v) |-> MarshalFinding(v[k])]
      [] f = "GeneratedAt" -> v
      [] OTHER -> JsonString(v)

SerialisationChanged ==
    \E f \in SignedFields : JsonField(f, sgPayload[f]) # JsonField(f, sgOrig[f])

\* C6 (as claimed): the payload with the signature made with secret s
\* verifies with s; after a change of any signed field, or with another
\* secret, verifySignature returns the signature-verification error.
C6_AnyChangeFailsSignature ==
    VerifiedSigned =>
        /\ (~FieldChanged /\ vfKey = sgKey) => vfResult = "ok"
        /\ (FieldChanged \/ vfKey # sgKey) => vfResult = "signature-failed"

\* C6 (amended): the unchanged payload verifies with the same secret; after
\* a change of a signed field that changes what encoding/json writes for it,
\* or with another secret, verifySignature fails: with the timestamp-expired
\* error when generated_at was changed to an expired time, and with the
\* signature-verification error otherwise.
C6_SerialisedChangeFails ==
    VerifiedSigned =>
        /\ (~FieldChanged /\ vfKey = sgKey) => vfResult = "ok"
        /\ (SerialisationChanged \/ vfKey # sgKey) =>
               vfResult = IF now - sgPayload.GeneratedAt > maxAge
                          THEN "expired" ELSE "signature-failed"

C6_Witness ==
    /\ VerifiedSigned
    /\ vfKey = sgKey
    /\ sgPayload.Nonce # sgOrig.Nonce
    /\ vfResult = "signature-failed"

(***************************************************************************)
(* Claims about the baseline store.                                        *)
(***************************************************************************)
BaselineFingerprints == {bl.Findings[k].Fingerprint : k \in 1 .. Len(bl.Findings)}

NotInBaseline(f) == fingerprint(f) \notin BaselineFingerprints

\* C7: Filter returns exactly the findings whose fingerprint is not in the
\* baseline, in their order; with the suppressed findings (the ones whose
\* fingerprint is in the baseline) they partition the input.
C7_FilterPartitions ==
    blOp = "filter" =>
        LET kept == {j \in 1 .. Len(flInput) : NotInBaseline(flInput[j])}
            suppressed == {j \in 1 .. Len(flInput) : IsSuppressed(bl.Findings, flInput[j])}
        IN /\ flKept = SelectSeq(flInput, NotInBaseline)
           /\ kept \cup suppressed = 1 .. Len(flInput)
           /\ kept \cap suppressed = {}
           /\ Len(flKept) = Cardinality(kept)

C7_Witness ==
    /\ blOp = "filter"
    /\ Len(bl.Findings) = 2
    /\ Len(flInput) = 2
    /\ Len(flKept) = 1
    /\ fingerprint(flInput[1]) = bl.Findings[2].Fingerprint

\* C8: Add of a finding whose fingerprint is in the baseline returns an
\* error and leaves the baseline as it was; Add of a finding whose
\* fingerprint is not in it appends exactly one entry, with that fingerprint.
C8_AddRejectsDuplicate ==
    [][blOp' = "add" =>
          LET f == blArg'[1]
              n == Len(bl.Findings)
          IN IF fingerprint(f) \in BaselineFingerprints
             THEN blErr' = "duplicate" /\ bl' = bl
             ELSE /\ blErr' = "ok"
                  /\ Len(bl'.Findings) = n + 1
                  /\ SubSeq(bl'.Findings, 1, n) = bl.Findings
                  /\ bl'.Findings[n + 1] =
                        [RuleID |-> f.RuleID, Path |-> f.Path, Line |-> f.Line,
                         Fingerprint |-> fingerprint(f)]
                  /\ [bl' EXCEPT !.Findings = <<>>] = [bl EXCEPT !.Findings = <<>>]]_vars

C8_Witness ==
    /\ blOp = "add"
    /\ blErr = "duplicate"
    /\ Len(bl.Findings) = 2
    /\ fingerprint(blArg[1]) = bl.Findings[2].Fingerprint

\* The same version, the same instant of creation, the same entries in the
\* same order.
BaselineEqual(a, b) ==
    /\ a.Version = b.Version
    /\ a.CreatedBy = b.CreatedBy
    /\ a.CreatedAt.wall = b.CreatedAt.wall
    /\ a.Findings = b.Findings

\* C9: a Load that follows a successful Save of b returns a baseline equal
\* to b.
C9_SaveLoadRoundTrip ==
    [][(blOp = "save" /\ blErr = "ok" /\ blOp' = "load") =>
          (blErr' = "ok" /\ BaselineEqual(bl', bl))]_vars

WellFormed(b) ==
    /\ b.Version # ""
    /\ \A k \in 1 .. Len(b.Findings) :
          /\ b.Findings[k].RuleID # ""
          /\ b.Findings[k].Path # ""
          /\ b.Findings[k].Line >= 0

\* C10: Load returns the empty baseline of version "1.0" when there is no
\* file, fails when the file is there and not a well-formed baseline, and a
\* baseline it returns without error is well-formed.
C10_LoadedIsWellFormed ==
    blOp = "load" =>
        /\ blFile.kind = "absent" =>
              (blErr = "ok" /\ bl.Version = "1.0" /\ bl.Findings = <<>>)
        /\ blFile.kind = "garbage" => blErr = "parse-failed"
        /\ (blFile.kind = "doc" /\ ~WellFormed(UnmarshalBaseline(blFile.doc))) =>
              blErr = "parse-failed"
        /\ blErr = "ok" => WellFormed(bl)

\* C11: a Save leaves in the file either the complete document that was
\* there before or the complete new document, whatever the outcome of the
\* write: never an empty or partial file.
C11_SaveIsAtomic ==
    [][blOp' = "save" =>
          blFile' \in {blFile, File("doc", MarshalBaseline(bl))}]_vars

(***************************************************************************)
(* Claims about the scanner.                                               *)
(***************************************************************************)
\* C12: two findings of a run with the same rule id, path and line have the
\* same Fingerprint, whatever text matched, and the Fingerprint of a finding
\* is the fingerprint the baseline computes for it.
C12_FingerprintFromRulePathLine ==
    \A j, k \in 1 .. Len(rnFindings) :
        LET f == rnFindings[j]
            g == rnFindings[k]
        IN /\ f.Fingerprint = fingerprint(f)
           /\ (f.RuleID = g.RuleID /\ f.Path = g.Path /\ f.Line = g.Line)
                 => f.Fingerprint = g.Fingerprint

\* The canonical paths and the rule ids, in ascending order.
SortedPaths ==
    <<"a/.h/s.txt", "a/k.env", "b/k.env", "c/.t.env", "c/esc.env", "l/k.env",
      "s/at.env", "s/over.env">>
SortedRuleIDs == <<"aws-access-key", "aws-secret-key", "generic-token">>

Rank(q, x) == CHOOSE r \in 1 .. Len(q) : q[r] = x

\* The sort key of a finding: (path, line, rule id, column).
SortKey(f) == <<Rank(SortedPaths, f.Path), f.Line, Rank(SortedRuleIDs, f.RuleID), f.Column>>

RECURSIVE LexLess(_, _)
LexLess(x, y) ==
    IF x = <<>> THEN FALSE
    ELSE Head(x) < Head(y) \/ (Head(x) = Head(y) /\ LexLess(Tail(x), Tail(y)))

\* C13: the list Run returns is sorted by (path, line, rule id, column).
C13_ResultSorted ==
    (rnResult.done /\ rnResult.err = "") =>
        \A j, k \in 1 .. Len(rnResult.findings) :
            j < k => ~LexLess(SortKey(rnResult.findings[k]), SortKey(rnResult.findings[j]))

\* C14: two runs with the same arguments over the same tree return the same
\* list of findings.
C14_RunsAgree ==
    (rnPrev # <<>> /\ rnResult.done /\ rnResult.err = "" /\ rnPrev[1].err = "") =>
        rnResult.findings = rnPrev[1].findings

\* C15: once the context is cancelled no further file is scanned, and Run
\* returns a Cancelled error with the findings produced until then.
C15_CancelStopsScan ==
    [][(rnCancelled /\ ~rnResult.done) =>
          /\ rnFindings' = rnFindings
          /\ rnResult'.done =>
                (rnResult'.err = "cancelled" /\ rnResult'.findings = rnFindings)]_vars

\* The findings of the shared list that come from root k.
FromRoot(k) ==
    SelectSeq(rnFindings,
              LAMBDA f : \E n \in 1 .. Len(Walk(Roots[k])) : Walk(Roots[k])[n].path = f.Path)

InResult(f) == \E n \in 1 .. Len(rnResult.findings) : rnResult.findings[n] = f

\* C16: when the walk of one root ended with an error, every other root was
\* walked to its end and its findings are in the result Run returns.
C16_FatalErrorAbortsRootOnly ==
    (rnResult.done /\ \E k \in DOMAIN wk : wk[k].err # "") =>
        \A k \in DOMAIN wk :
            wk[k].err = "" =>
                /\ isGitRepo(Roots[k]) \/ wk[k].pos > Len(Walk(Roots[k]))
                /\ \A n \in 1 .. Len(FromRoot(k)) : InResult(FromRoot(k)[n])

\* The directories of a walk the callback answers SkipDir for.
SkippedDirs(w) ==
    {w[n].path : n \in {m \in 1 .. Len(w) : Callback(rnOpts, w[m]) = "skipdir"}}

\* The files of root k that pass the filters and can be opened.
Readable(k) ==
    LET w == Walk(Roots[k])
    IN {w[n].path : n \in {m \in 1 .. Len(w) :
                              /\ Callback(rnOpts, w[m]) = "scan"
                              /\ w[m].under \cap SkippedDirs(w) = {}
                              /\ w[m].path \notin fsDenied}}

\* C17: a file that cannot be opened does not end the walk: when every root
\* exists and holds no cycle of links, Run returns without error and the
\* findings of every file that can be read are in the result.
C17_FileErrorDoesNotAbort ==
    (/\ rnResult.done
     /\ \A k \in DOMAIN wk :
           /\ ~isGitRepo(Roots[k])
           /\ Walk(Roots[k])[1].err = ""
           /\ \A n \in 1 .. Len(Walk(Roots[k])) : Resolve(Walk(Roots[k])[n].path, {}) # "") =>
        /\ rnResult.err = ""
        /\ \A k \in DOMAIN wk : \A p \in Readable(k) :
              LET fs == ScanReader(Content(p), p, 1)
              IN \A n \in 1 .. Len(fs) : InResult(fs[n])

\* The logical CPUs of the machine.
LogicalCpus == 1

Clamp(x, lo, hi) == IF x < lo THEN lo ELSE IF x > hi THEN hi ELSE x

\* C18: at every moment at most clamp(threads, 1, 4 x logical_cpus)
\* goroutines of the group are active.
C18_WorkersWithinClamp ==
    Cardinality(Active) <= Clamp(rnOpts.Threads, 1, 4 * LogicalCpus)

(***************************************************************************)
(* Claims about the scan command.                                          *)
(***************************************************************************)
SeverityRank(sev) ==
    CASE sev = "critical" -> 4
      [] sev = "high" -> 3
      [] sev = "medium" -> 2
      [] OTHER -> 1

\* Whether a list holds a finding at or above the configured threshold.
AtOrAbove(findings) ==
    \E k \in 1 .. Len(findings) :
        SeverityRank(findings[k].Severity) >= SeverityRank(clCfg.SeverityThresh)

\* C19: without no_fail the scan exits with 1 after an error, and else with
\* 0 iff the engine found nothing at or above the threshold, with 3 iff a
\* finding at or above the threshold remains after the baseline, with 5 iff
\* such findings were found and the baseline suppressed all of them.
C19_ExitCodeMapping ==
    (clPc = "exited" /\ ~clCfg.noFail) =>
        IF clErr # "" THEN clExit = 1
        ELSE /\ clExit = 0 <=> ~AtOrAbove(clEngine)
             /\ clExit = 3 <=> AtOrAbove(clFindings)
             /\ clExit = 5 <=> (AtOrAbove(clEngine) /\ ~AtOrAbove(clFindings))

\* C20: when Send fails, the findings are still written to the output and
\* the exit code is the one the findings give.
C20_SendFailureDoesNotAbort ==
    (clPc = "exited" /\ clSendErr # "") =>
        /\ clOut = <<clFindings>>
        /\ clExit = exitWith("", clFindings, clSuppressed, clCfg.noFail)

\* C21: no finding is emitted for a path that resolves, symbolic links
\* followed, to a file outside the root it was found under.
C21_NoFindingOutsideRoot ==
    \A j \in 1 .. Len(rnFindings) :
        \E k \in DOMAIN wk : \E n \in 1 .. Len(Walk(Roots[k])) :
            Walk(Roots[k])[n].path = Resolve(rnFindings[j].Path, {})

HasFindingAt(path) == \E j \in 1 .. Len(rnFindings) : rnFindings[j].Path = path

AllInResult(fs) == \A n \in 1 .. Len(fs) : InResult(fs[n])

\* C22: when the tree holds a cycle of symbolic links (and every file can
\* be opened), Run returns, with no finding for the entries of the cycle
\* and with the findings of the other files of the tree.
C22_SymlinkCycleIsSkipped ==
    (rnResult.done /\ fsDenied = {}) =>
        \A k \in DOMAIN wk :
            (\E q \in Readable(k) : Resolve(q, {}) = "") =>
                \A p \in Readable(k) :
                    IF Resolve(p, {}) = "" THEN ~HasFindingAt(p)
                    ELSE AllInResult(ScanFile(p).findings)

\* The size cap in effect: the option, or the default when it is not set.
SizeCap == IF rnOpts.MaxFileSize = 0 THEN DefaultMaxFileSize ELSE rnOpts.MaxFileSize

\* The files of root k that pass every filter but the size cap and can be
\* read.
Candidates(k) ==
    LET w == Walk(Roots[k])
    IN {e \in {w[n] : n \in 1 .. Len(w)} :
            /\ Callback([rnOpts EXCEPT !.MaxFileSize = 0], e) = "scan"
            /\ e.under \cap SkippedDirs(w) = {}
            /\ e.path \notin fsDenied
            /\ Resolve(e.path, {}) # ""}

\* C23: a file of exactly the size cap is scanned, a file of one byte more
\* is skipped and yields no finding; the cap is 10 MiB when the option is
\* not set.
C23_SizeCapBoundary ==
    (rnResult.done /\ rnResult.err = "") =>
        \A k \in DOMAIN wk : \A e \in Candidates(k) :
            /\ e.size = SizeCap => AllInResult(ScanFile(e.path).findings)
            /\ e.size = SizeCap + 1 => ~HasFindingAt(e.path)

\* Whether an entry of the walk w, or a directory above it, below the root
\* has a name that starts with ".".
HiddenBelowRoot(w, e) ==
    \E n \in 2 .. Len(w) :
        /\ HasDotPrefix(w[n].name)
        /\ w[n] = e \/ (w[n].dir /\ w[n].path \in e.under)

\* C24: with SkipHidden, no finding comes from an entry below the root
\* that is hidden, and the root is walked whatever its own name: the
\* findings of its files that are not hidden are in the result.
C24_HiddenSkippedRootWalked ==
    (rnResult.done /\ rnResult.err = "" /\ rnOpts.SkipHidden) =>
        \A k \in DOMAIN wk :
            LET w == Walk(Roots[k])
            IN \A n \in 1 .. Len(w) :
                  IF HiddenBelowRoot(w, w[n]) THEN ~HasFindingAt(w[n].path)
                  ELSE (/\ ~w[n].dir
                        /\ Callback(rnOpts, w[n]) = "scan"
                        /\ w[n].path \notin fsDenied
                        /\ Resolve(w[n].path, {}) # "")
                          => AllInResult(ScanFile(w[n].path).findings)

\* C27: the files of the HEAD tree of a root that is a git repository are
\* scanned: their findings are in the result of Run.
C27_GitRootYieldsHeadFiles ==
    (rnResult.done /\ rnResult.err = "") =>
        \A k \in DOMAIN wk :
            isGitRepo(Roots[k]) =>
                \A n \in 1 .. Len(HeadFiles(Roots[k])) :
                    AllInResult(ScanFile(HeadFiles(Roots[k])[n]).findings)

(***************************************************************************)
(* Claims about FilesInRange.                                              *)
(***************************************************************************)
\* C25: when both revisions resolve and the committer time of from is later
\* than that of to, FilesInRange returns ErrInvalidRange and no files.
C25_InvalidRangeRejected ==
    (/\ gtCalled
     /\ gtRepo
     /\ gtFrom \in Commits
     /\ gtTo \in Commits
     /\ gtTime[gtFrom] > gtTime[gtTo]) =>
        (gtErr = "ErrInvalidRange" /\ gtFiles = <<>>)

C25_Witness ==
    /\ gtCalled
    /\ gtRepo
    /\ gtFrom = "c2"
    /\ gtTo = "c4"
    /\ gtTime["c2"] = gtTime["c4"] + 1
    /\ gtErr = "ErrInvalidRange"
    /\ gtFiles = <<>>

\* The commits reachable from c, c included.
RECURSIVE Ancestors(_)
Ancestors(c) ==
    {c} \cup UNION {Ancestors(Parents(c)[n]) : n \in 1 .. Len(Parents(c))}

\* The commits of from..to: reachable from to and not from from.
Range(from, to) == Ancestors(to) \ Ancestors(from)

\* C26: FilesInRange returns only files of commits of from..to, each once.
C26_OnlyFilesOfRange ==
    (gtCalled /\ gtErr = "") =>
        /\ \A n \in 1 .. Len(gtFiles) :
              \E c \in Range(gtFrom, gtTo) :
                  \E k \in 1 .. Len(TreeFiles(c)) : TreeFiles(c)[k] = gtFiles[n]
        /\ \A j, k \in 1 .. Len(gtFiles) : j # k => gtFiles[j] # gtFiles[k]

(***************************************************************************)
(* Claims about the configuration.                                         *)
(***************************************************************************)
\* The value an option must have: the flag's when the flag was given, else
\* the environment's when the environment sets it, else the file's.
Precedence(flag, envValue, fileValue) ==
    IF flag.given THEN flag.value
    ELSE IF envValue # "" THEN envValue
    ELSE fileValue

\* C28: every merged option has the value of the flag when the flag was
\* given, else of the environment when it sets the option, else of the
\* configuration file.
C28_ConfigPrecedence ==
    cfMerged # <<>> =>
        LET file == LoadConfig(cfFile)
            m == cfMerged[1]
        IN /\ m.Image = Precedence(cfFlags.image, "", file.Image)
           /\ m.CompareImage = Precedence(cfFlags.compare, "", file.CompareImage)
           /\ m.NoBaseline = Precedence(cfFlags.nobaseline, "", file.NoBaseline)
           /\ m.WebhookURL = Precedence(cfFlags.webhookurl, cfEnv.url, file.WebhookURL)
           /\ m.WebhookSecret =
                 Precedence(cfFlags.webhooksecret, cfEnv.secret, file.WebhookSecret)
           /\ m.SeverityThresh = Precedence(cfFlags.severity, "", file.SeverityThresh)

(***************************************************************************)
(* Claims about the baseline file and the commands.                        *)
(***************************************************************************)
\* C29: a step of a scan leaves the baseline file as it was, and the file
\* changes only in a step of `baseline add` that got as far as Save.
C29_ScanKeepsBaselineFile ==
    [][/\ clPc' # clPc => blFile' = blFile
       /\ blFile' # blFile =>
            /\ clPc' = clPc
            /\ LoadResult(blFile).err = "ok"
            /\ \E arg \in AddArgs :
                 /\ AddResult(LoadResult(blFile).b[1], FindingOfArg(arg)).err = "ok"
                 /\ \E o \in {"ok", "write-failed"} :
                      blFile' = FileAfterAdd(blFile, arg, o)]_vars

\* A scan that suppressed findings has exited, the baseline file on disk
\* still holding the entries it loaded.
C29_Witness ==
    /\ clPc = "exited"
    /\ clSuppressed
    /\ clOut # <<>>
    /\ blFile \in CliFiles

\* C30: the fingerprints of the entries of a Baseline obtained from Load and
\* any Adds are pairwise distinct.
C30_FingerprintsDistinct ==
    blHave =>
        \A j, k \in 1 .. Len(bl.Findings) :
            j # k => bl.Findings[j].Fingerprint # bl.Findings[k].Fingerprint

(***************************************************************************)
(* Claims about the nonce cache.                                           *)
(***************************************************************************)
\* A step in which the Send called by s returns.
SendReturns(s) == pc[s] # "done" /\ pc'[s] = "done"

\* C31: when a Send returns rejecting its payload and no cleanup is still to
\* run, and when a cleanup has run, the cache holds no entry older than
\* max_age: every Send evicts.
C31_NoStaleNonceAfterSend ==
    [][( \/ \E s \in Senders :
              /\ SendReturns(s) \/ (SendCalled(s) /\ pc'[s] = "done")
              /\ result'[s] \in {"expired", "replay"}
              /\ sweeps' = 0
         \/ sweeps' < sweeps )
       => \A n \in DOMAIN nonces' : ~(now' - nonces'[n] > maxAge)]_vars

(***************************************************************************)
(* Claims about the findings.                                              *)
(***************************************************************************)
\* C32: every finding the command hands to the baseline filter, the webhook
\* and the output has a rule id, a severity, a path and a fingerprint that
\* are not empty, and a secret finding has a line of at least 1.
C32_FindingsWellFormed ==
    \A k \in 1 .. Len(clFindings) :
        /\ clFindings[k].RuleID # ""
        /\ clFindings[k].Severity # ""
        /\ clFindings[k].Path # ""
        /\ clFindings[k].Fingerprint # ""
        /\ clFindings[k].Type = "secret" => clFindings[k].Line >= 1

\* C33: with no_baseline set the baseline file is not consulted: whatever it
\* holds, the findings past the baseline step are the engine's, none is
\* suppressed, a scan that ends without error has written the engine's
\* findings, and its exit code is the one they give unsuppressed (3 when one
\* of them is critical or high and --no-fail is not given).
C33_NoBaselineReportsAll ==
    clCfg.NoBaseline =>
        /\ clPc \in {"filtered", "sent", "written"} =>
              clFindings = clEngine /\ ~clSuppressed
        /\ (clPc = "exited" /\ clErr = "") =>
              /\ clOut = <<clEngine>>
              /\ clExit = exitWith("", clEngine, FALSE, clCfg.noFail)
              /\ ( /\ ~clCfg.noFail
                   /\ \E k \in 1 .. Len(clEngine) :
                         clEngine[k].Severity \in {"critical", "high"} )
                 => clExit = 3
        /\ clErr # "failed to load baseline"

\* A scan with no_baseline has exited with 3 although the baseline file
\* holds an entry for every finding of the engine.
C33_Witness ==
    /\ clCfg.NoBaseline
    /\ clPc = "exited"
    /\ clExit = 3
    /\ clEngine # <<>>
    /\ blFile = BaselineOf(clEngine)

\* The Sends that got past the replay check: at, or after, HTTP delivery.
Delivering == {s \in Callers : pc[s] = "attempt" \/ result[s] \in Stored}

\* C34: of the Sends that run concurrently on one Webhook with the same
\* nonce, at most one gets past the replay check to HTTP delivery.
C34_OneSendPerNonce ==
    \A s, t \in Delivering : payload[s].Nonce = payload[t].Nonce => s = t

(***************************************************************************)
(* Claims about the workers of Run.                                        *)
(***************************************************************************)
\* How often f occurs in a list.
Count(list, f) == Cardinality({n \in 1 .. Len(list) : list[n] = f})

\* The findings ScanFile gives for the files of root k that pass the filters.
FindingsOfRoot(k) ==
    UNION {{ScanFile(p).findings[n] : n \in 1 .. Len(ScanFile(p).findings)} :
              p \in Readable(k)}

\* How often f is found: once by each root that holds its file among the
\* files that pass the filters, as often as ScanFile returns it.
TimesFound(f) ==
    Cardinality({k \in DOMAIN wk : f.Path \in Readable(k)})
        * Count(ScanFile(f.Path).findings, f)

\* C35: when Run returns without error, the list it returns holds every
\* finding of every file that passed the filters exactly as often as
\* ScanFile found it, and nothing else, whatever the interleaving.
C35_NoFindingLostOrDuplicated ==
    (rnResult.done /\ rnResult.err = "") =>
        /\ rnResult.findings = rnFindings
        /\ \A n \in 1 .. Len(rnResult.findings) :
              Count(rnResult.findings, rnResult.findings[n])
                 = TimesFound(rnResult.findings[n])
        /\ \A k \in DOMAIN wk : \A f \in FindingsOfRoot(k) :
              Count(rnResult.findings, f) = TimesFound(f)

\* Two roots were walked concurrently, their findings interleaved: the
\* first finding of the result is one of the second root.
C35_Witness ==
    /\ rnResult.done /\ rnResult.err = ""
    /\ rnPaths = <<"a", "b">>
    /\ rnOpts.Threads \in {-1, 2}
    /\ Len(rnResult.findings) > 1
    /\ rnResult.findings[1].Path = "b/k.env"
    /\ \E n \in 1 .. Len(rnResult.findings) : rnResult.findings[n].Path = "a/k.env"

\* C36: whatever the threads option and the roots, Run returns in the end.
C36_RunTerminates == <>rnResult.done

(***************************************************************************)
(* Claims about the order of the steps of Send.                            *)
(***************************************************************************)
\* The nonce of the payload of s is in the cache, or has expired.
CachedUntilExpiry(s) ==
    \/ payload[s].Nonce \in DOMAIN nonces
    \/ Expired(payload[s].GeneratedAt)

\* C37: a payload that was put on the wire was signed and had its nonce
\* recorded before; every attempt carries the same signed body; the nonce
\* stays in the cache until it expires, also when the delivery fails; and a
\* Send that has returned was sent (a 2xx ended it), rejected (expired or
\* replay, nothing on the wire) or failed.
C37_SendOrdering ==
    \A s \in Senders :
        /\ sent[s] # <<>> =>
              /\ payload[s].Sign =
                    <<signPayload(webhookSecret, [payload[s] EXCEPT !.Sign = NoSign])>>
              /\ CachedUntilExpiry(s)
              /\ \A k \in 1 .. Len(sent[s]) : sent[s][k] = MarshalSigned(payload[s])
        /\ Len(sent[s]) = Len(resps[s])
        /\ pc[s] = "attempt" => CachedUntilExpiry(s)
        /\ pc[s] = "done" =>
              /\ result[s] \in {"ok", "expired", "replay", "failed", "create-request"}
              /\ result[s] = "ok" <=> (resps[s] # <<>> /\ Is2xx(resps[s][Len(resps[s])]))
              /\ result[s] \in {"expired", "replay"} => sent[s] = <<>>
              /\ result[s] = "failed" => (Len(sent[s]) = maxRetries /\ No2xx(resps[s]))
              /\ result[s] = "create-request" => sent[s] = <<>>
              /\ result[s] \in {"failed", "create-request"} => CachedUntilExpiry(s)

\* A Send failed after three attempts and its nonce is still in the cache.
C37_Witness ==
    \E s \in Senders :
        /\ pc[s] = "done" /\ result[s] = "failed"
        /\ Len(sent[s]) = maxRetries
        /\ payload[s].Nonce \in DOMAIN nonces
        /\ ~Expired(payload[s].GeneratedAt)

(***************************************************************************)
(* Claims about the baseline fingerprint and the baseline command.         *)
(***************************************************************************)
\* The entry's fingerprint is the one of its own rule id, path and line.
OwnFingerprint(e) ==
    e.Fingerprint = fingerprint([RuleID |-> e.RuleID, Path |-> e.Path, Line |-> e.Line])

SameLocation(e, f) == e.RuleID = f.RuleID /\ e.Path = f.Path /\ e.Line = f.Line

\* C38: a baseline entry suppresses only findings of its own rule id, path
\* and line: every finding Filter drops has an entry at its location.
C38_FingerprintSeparatesLocations ==
    ( /\ blOp = "filter"
      /\ \A j \in 1 .. Len(bl.Findings) : OwnFingerprint(bl.Findings[j]) ) =>
        \A k \in 1 .. Len(flInput) :
            (\A n \in 1 .. Len(flKept) : flKept[n] # flInput[k]) =>
                \E j \in 1 .. Len(bl.Findings) : SameLocation(bl.Findings[j], flInput[k])
\* The entries of the baseline file that `baseline add` stored: they carry
\* the argument as rule id and no path or line.
AddedArgs ==
    IF blFile.kind # "doc" THEN {}
    ELSE {blFile.doc.findings[j].ruleId :
             j \in {n \in 1 .. Len(blFile.doc.findings) :
                       /\ blFile.doc.findings[n].path = ""
                       /\ blFile.doc.findings[n].line = 0}}

\* C39: a scan that applied a baseline to which `baseline add` had added a
\* fingerprint reports no finding that has this fingerprint.
C39_AddedFingerprintSuppresses ==
    (clPc \in {"filtered", "sent", "written"} /\ ~clCfg.NoBaseline) =>
        \A k \in 1 .. Len(clEngine) :
            ( \/ fingerprint(clEngine[k]) \in AddedArgs
              \/ clEngine[k].Fingerprint \in AddedArgs ) =>
                \A n \in 1 .. Len(clFindings) : clFindings[n] # clEngine[k]

====
